---- MODULE Spec2Model ----
(***************************************************************************)
(* Knowledge-Transformer: the YouTube processing pipeline                  *)
(* (app/api/youtube/process/route.ts), the retry endpoint                  *)
(* (app/api/youtube/retry/route.ts), the step-tracking SQL functions       *)
(* (supabase/migrations/002_enhanced_error_tracking.sql) and the transcript*)
(* fallback chain (lib/transcripts.ts).                                    *)
(*                                                                         *)
(* Text is modelled as a sequence of word tokens; String.includes(s) is    *)
(* the test for a contiguous run of tokens.                                *)
(***************************************************************************)
EXTENDS Integers, Sequences, FiniteSets, Bags, TLC

VARIABLES
    content_sources,      \* table content_sources: sequence of rows, id = index
    content_items,        \* table content_items: sequence of rows, id = index
    content_transcripts,  \* table content_transcripts: sequence of content_item_id
    generated_summaries,  \* table generated_summaries: sequence of content_item_id
    req,                  \* per request handler: its position and locals
    log,                  \* per request handler: the events of its current request
    started,              \* number of requests received so far
    retryCalls,           \* bag of the contentItemIds the retry endpoint was called with
    stepWrites,           \* per content item: the writes of current_step, in order
    tIn,                  \* getTranscript: outcome of the caption service
    tOut,                 \* getTranscript: what the call returned or threw
    ai,                   \* one call of lib/ai: its inputs, what it returned or threw
    batchAI,              \* one call of batchAnalyzeContent: its invocations and results
    batch,                \* one POST of the process endpoint with its list of URLs
    rpc                   \* the call of update_processing_step in flight, if any

storeVars == <<content_sources, content_items, content_transcripts, generated_summaries>>
pipeVars == <<content_sources, content_items, content_transcripts, generated_summaries,
              req, log, started, retryCalls, stepWrites>>
transcriptVars == <<tIn, tOut>>
aiVars == <<ai, batchAI>>
batchVars == <<batch>>
vars == <<content_sources, content_items, content_transcripts, generated_summaries,
          req, log, started, retryCalls, stepWrites, tIn, tOut, ai, batchAI, batch, rpc>>

----------------------------------------------------------------------------
(* Bounds of the model *)

\* longest raw provider error message, in tokens
MaxMsgLen == 2
\* distinct YouTube video ids submitted
NumVideos == 2
\* request handlers that may run at the same time
NumSlots == 2
\* requests received in one behaviour, served concurrently
MaxRequests == 2
\* requests received in one behaviour, served one after the other
MaxSeqRequests == 3
\* retry calls received in one behaviour of the retry endpoint alone
MaxRetryCalls == 5
\* longest list of URLs whose processing is followed step by step
MaxUrls == 2
\* longest list of contents given to batchAnalyzeContent
MaxItems == 7
\* largest value of the option maxConcurrent
MaxConcurrentOption == 3
\* the longest content whose cost is estimated
MaxContentLength == 5001
\* number of calls of updateProcessingStep made in a row
MaxStepCalls == 2
\* largest absolute value of a negative option maxConcurrent
MaxNegativeOption == 2
\* number of passes of the loop of batchAnalyzeContent that are followed
MaxLoopPasses == 8
\* how far, in hundredths, a confidence in a response lies outside 0..1
MaxConfidenceExcess == 5

NULL == "null"

----------------------------------------------------------------------------
(* Text helpers *)

\* String.prototype.toLowerCase on one token
Lower(w) ==
    CASE w = "Private" -> "private"
      [] w = "Not" -> "not"
      [] OTHER -> w

toLowerCase(msg) == [i \in 1..Len(msg) |-> Lower(msg[i])]

\* String.prototype.includes: sub occurs in msg as a contiguous run
includes(msg, sub) ==
    \E i \in 0..(Len(msg) - Len(sub)) :
        \A j \in 1..Len(sub) : msg[i + j] = sub[j]

\* the words raw caption-service errors are made of
Words == {"no", "transcript", "captions", "unavailable", "Private", "private",
          "Not", "found", "404", "disabled"}

RECURSIVE SeqsUpTo(_, _)
SeqsUpTo(S, n) ==
    IF n = 0 THEN {<<>>}
    ELSE LET shorter == SeqsUpTo(S, n - 1)
         IN shorter \cup {Append(s, w) : s \in {t \in shorter : Len(t) = n - 1}, w \in S}

Messages == SeqsUpTo(Words, MaxMsgLen)

----------------------------------------------------------------------------
(* lib/transcripts.ts *)

VideoIds == {"v1", "v2", "v3"}
Videos == {v \in VideoIds : \E i \in 1..NumVideos : v = <<"v1", "v2", "v3">>[i]}

\* what YoutubeTranscript.fetchTranscript can do: return caption items, throw
\* an Error with a message, or throw something that is not an Error
CaptionTexts == {<<"so">>, <<"um", "so">>, <<"so", "so">>}
CaptionOutcomes ==
    [ok : {TRUE}, isError : {FALSE}, message : {<<>>}, items : CaptionTexts]
    \cup [ok : {FALSE}, isError : {TRUE}, message : Messages, items : {<<>>}]
    \cup [ok : {FALSE}, isError : {FALSE}, message : {<<>>}, items : {<<>>}]

TranscriptError(message, code, errorType) ==
    [name |-> "TranscriptError", message |-> message, code |-> code,
     errorType |-> errorType]

\* the catch block of extractYouTubeTranscript: the specific error type
ClassifyYouTubeError(error) ==
    IF error.isError
    THEN LET message == toLowerCase(error.message)
         IN IF includes(message, <<"no", "transcript">>)
               \/ includes(message, <<"captions", "unavailable">>)
            THEN "no_captions"
            ELSE IF includes(message, <<"private">>) \/ includes(message, <<"unavailable">>)
            THEN "video_private"
            ELSE IF includes(message, <<"not", "found">>) \/ includes(message, <<"404">>)
            THEN "video_not_found"
            ELSE "youtube_api_error"
    ELSE "unknown"

\* error instanceof Error ? error.message : fallback
MessageOf(error, fallback) == IF error.isError THEN error.message ELSE <<fallback>>

extractYouTubeTranscript(videoId, captions) ==
    IF captions.ok
    THEN [ok |-> TRUE,
          segments |-> captions.items,
          rawText |-> captions.items,
          language |-> "en"]
    ELSE [ok |-> FALSE,
          error |-> TranscriptError(
              <<"Failed to extract transcript for video", videoId, ":">>
                  \o MessageOf(captions, "Unknown error"),
              "YOUTUBE_TRANSCRIPT_FAILED",
              ClassifyYouTubeError(captions))]

WhisperMessage == <<"Whisper transcription not yet implemented">>

\* placeholder: always throws, with no errorType
extractWithWhisper(audioUrl) ==
    [ok |-> FALSE,
     error |-> TranscriptError(WhisperMessage, "WHISPER_NOT_IMPLEMENTED", NULL)]

Fillers == {"um", "uh", "ah", "mm"}

\* .replace(/\b(um|uh|ah|mm)\b/gi, ''): the word goes, the spaces around it stay
RemoveFillers(text) == [i \in 1..Len(text) |-> IF text[i] \in Fillers THEN "" ELSE text[i]]

\* .replace(/\b(\w+)\s+\1\b/gi, '$1'): one left-to-right pass over
\* non-overlapping pairs; an emptied token only widens the white space
RECURSIVE RemoveRepeated(_)
RemoveRepeated(text) ==
    IF Len(text) < 2 THEN text
    ELSE IF text[1] /= "" /\ text[2] = "" /\ Len(text) >= 3 /\ text[3] = text[1]
    THEN <<text[1]>> \o RemoveRepeated(SubSeq(text, 4, Len(text)))
    ELSE IF text[1] /= "" /\ text[2] = text[1]
    THEN <<text[1]>> \o RemoveRepeated(SubSeq(text, 3, Len(text)))
    ELSE <<text[1]>> \o RemoveRepeated(Tail(text))

Upper(w) ==
    CASE w = "so" -> "So"
      [] OTHER -> w

\* .replace(/(^|\. )([a-z])/g, ...): the text's first letter is capitalised
\* (no caption token of the model ends a sentence)
Capitalize(text) ==
    IF text = <<>> THEN text ELSE <<Upper(text[1])>> \o Tail(text)

\* .trim(): white space at both ends goes
RECURSIVE Trim(_)
Trim(text) ==
    IF text = <<>> THEN text
    ELSE IF text[1] = "" THEN Trim(Tail(text))
    ELSE IF text[Len(text)] = "" THEN Trim(SubSeq(text, 1, Len(text) - 1))
    ELSE text

cleanTranscript(text) == Trim(Capitalize(RemoveRepeated(RemoveFillers(text))))

\* the primary error type the aggregate failure carries
PrimaryErrorTypeFromWhisper(youtubeError, whisperError) ==
    IF whisperError.name = "TranscriptError" /\ whisperError.errorType /= NULL
    THEN whisperError.errorType
    ELSE "unknown"

PrimaryErrorType(youtubeError, whisperError) ==
    IF youtubeError.name = "TranscriptError" /\ youtubeError.errorType /= NULL
    THEN youtubeError.errorType
    ELSE "unknown"

\* a getTranscript that calls both methods whatever the first one returns
getTranscriptBothMethods(videoId, captions) ==
    LET youtubeResult == extractYouTubeTranscript(videoId, captions)
        whisperResult == extractWithWhisper(<<"https://www.youtube.com/watch?v=", videoId>>)
    IN IF youtubeResult.ok
       THEN [ok |-> TRUE,
             segments |-> youtubeResult.segments,
             rawText |-> youtubeResult.rawText,
             language |-> youtubeResult.language,
             processedText |-> cleanTranscript(youtubeResult.rawText),
             transcriptType |-> "auto",
             calls |-> <<"youtube", "whisper">>]
       ELSE [ok |-> FALSE, error |-> whisperResult.error, calls |-> <<"youtube", "whisper">>]

\* getTranscript with its fallback chain; calls lists the services it called
getTranscript(videoId, captions) ==
    LET youtubeResult == extractYouTubeTranscript(videoId, captions)
    IN IF youtubeResult.ok
       THEN [ok |-> TRUE,
             segments |-> youtubeResult.segments,
             rawText |-> youtubeResult.rawText,
             language |-> youtubeResult.language,
             processedText |-> cleanTranscript(youtubeResult.rawText),
             transcriptType |-> "auto",
             calls |-> <<"youtube">>]
       ELSE LET youtubeError == youtubeResult.error
                whisperResult == extractWithWhisper(<<"https://www.youtube.com/watch?v=", videoId>>)
            IN IF whisperResult.ok
               THEN [ok |-> TRUE,
                     segments |-> whisperResult.segments,
                     rawText |-> whisperResult.rawText,
                     language |-> whisperResult.language,
                     processedText |-> cleanTranscript(whisperResult.rawText),
                     transcriptType |-> "whisper",
                     calls |-> <<"youtube", "whisper">>]
               ELSE LET whisperError == whisperResult.error
                    IN [ok |-> FALSE,
                        error |-> TranscriptError(
                            <<"All transcript extraction methods failed for video", videoId,
                              ". YouTube error:">> \o youtubeError.message
                              \o <<". Whisper error:">> \o whisperError.message,
                            "ALL_METHODS_FAILED",
                            PrimaryErrorType(youtubeError, whisperError)),
                        calls |-> <<"youtube", "whisper">>]

\* getTranscript has not been called yet
NotCalled == [calls |-> <<>>]

\* one call of getTranscript
GetTranscriptCall ==
    /\ tOut = NotCalled
    /\ tOut' = getTranscript(tIn.videoId, tIn.captions)
    /\ UNCHANGED <<tIn>>

----------------------------------------------------------------------------
(* The Content Store: supabase tables and SQL functions *)

\* the test user of POST (route.ts: "TODO: Get from auth session")
userId == "00000000-0000-0000-0000-000000000000"

\* max_retries as the retry endpoint passes it to increment_retry_count
max_retries == 3

\* the JSON object {}
EmptyJson == [k \in {} |-> TRUE]

Steps == {"pending", "fetching_metadata", "extracting_transcript", "ai_processing",
          "saving_data", "completed", "failed"}

\* .single(): the row when exactly one row matches, else data is null (0)
Single(rows) == IF Cardinality(rows) = 1 THEN CHOOSE r \in rows : TRUE ELSE 0

\* a new content_items row with the column defaults of the schema
NewContentItem(source_id, external_id) ==
    [source_id |-> source_id,
     user_id |-> userId,
     external_id |-> external_id,
     processing_status |-> "pending",
     current_step |-> "pending",
     step_details |-> {},
     error_details |-> EmptyJson,
     retry_count |-> 0,
     can_retry |-> TRUE]

\* UNIQUE(source_id, external_id) on content_items
ViolatesUnique(items, source_id, external_id) ==
    \E i \in 1..Len(items) :
        items[i].source_id = source_id /\ items[i].external_id = external_id

\* an update that merges the new details into the stored ones
update_processing_step_merge(items, content_item_id, new_step, details, error_info) ==
    [items EXCEPT ![content_item_id] =
        [@ EXCEPT !.current_step = new_step,
                  !.step_details = @ \cup details,
                  !.error_details = IF new_step = "failed" THEN error_info ELSE @]]

\* SQL function update_processing_step
update_processing_step(items, content_item_id, new_step, details, error_info) ==
    [items EXCEPT ![content_item_id] =
        [@ EXCEPT !.current_step = new_step,
                  !.step_details = details,
                  !.error_details = IF new_step = "failed" THEN error_info ELSE @]]

\* a plausible slip in increment_retry_count: <= where the function has <
increment_retry_count_le(items, content_item_id, maxRetries) ==
    [items EXCEPT ![content_item_id] =
        [@ EXCEPT !.retry_count = @ + 1,
                  !.can_retry = (items[content_item_id].retry_count + 1) <= maxRetries,
                  !.current_step = "pending"]]

\* SQL function increment_retry_count: the UPDATE
increment_retry_count(items, content_item_id, maxRetries) ==
    [items EXCEPT ![content_item_id] =
        [@ EXCEPT !.retry_count = @ + 1,
                  !.can_retry = (items[content_item_id].retry_count + 1) < maxRetries,
                  !.current_step = "pending"]]

\* SQL function increment_retry_count: RETURN current_retries < max_retries,
\* current_retries being the retry_count the UPDATE returned
increment_retry_count_result(items, content_item_id, maxRetries) ==
    increment_retry_count(items, content_item_id, maxRetries)[content_item_id].retry_count
        < maxRetries

\* what `await serverClient.rpc(...)` resolves to: the response object
RpcResponse(data) == [data |-> data, error |-> NULL]

\* a retry endpoint that reads the function's boolean out of the response
IsTruthyData(response) == response.data

\* JavaScript truthiness of the response object of rpc(): an object is truthy
IsTruthy(response) == TRUE


----------------------------------------------------------------------------
(* lib/ai: provider fallback *)

Error(message) == [name |-> "Error", isError |-> TRUE, message |-> message]

ClaudeAPIError(message, code, statusCode, errorType) ==
    [name |-> "ClaudeAPIError", isError |-> TRUE, message |-> message, code |-> code,
     statusCode |-> statusCode, errorType |-> errorType]

AIProcessingError(message, provider, originalError) ==
    [name |-> "AIProcessingError", isError |-> TRUE, message |-> message,
     provider |-> provider, originalError |-> originalError]

\* an optional error that is not given
NoError == [name |-> "undefined", isError |-> FALSE]

AIProviders == {"claude", "grok"}

\* the errors the catch block of the Claude client builds
ClaudeThrown ==
    {ClaudeAPIError(<<"Claude API error:", "429">>, "anthropic_api_error", "429", "rate_limit"),
     ClaudeAPIError(<<"Claude API error:", "401">>, "anthropic_api_error", "401", "api_key_invalid"),
     ClaudeAPIError(<<"Claude API error:", "too large">>, "anthropic_api_error", "400", "token_limit"),
     ClaudeAPIError(<<"Claude API error:", "context_length_exceeded">>, "anthropic_api_error",
                    "400", "context_too_long"),
     ClaudeAPIError(<<"Claude API error:", "overloaded">>, "anthropic_api_error", "500", "unknown"),
     ClaudeAPIError(<<"Failed to generate summary:", "timed out">>, NULL, NULL, "timeout"),
     ClaudeAPIError(<<"Failed to generate summary:",
                      "Unexpected response format from Claude API">>, NULL, NULL, "unknown")}

\* what a call of the Claude client does: a result with its tokens and cost, or a throw
ClaudeResults ==
    [ok : {TRUE}, text : {"summary-a", "summary-b"}, topics : {<<>>, <<"topic">>},
     tokensUsed : {100, 250}, cost : {1, 3}]

ClaudeOutcomes == ClaudeResults \cup {[ok |-> FALSE, error |-> e] : e \in ClaudeThrown}

GrokMessage == <<"Grok provider not yet implemented">>

\* a fallback order that stops at the preferred provider
ProvidersPreferredOnly(preferredProvider) == <<preferredProvider>>

\* a fallback order with the preferred provider last
ProvidersFallbackFirst(preferredProvider) ==
    IF preferredProvider = "claude" THEN <<"grok", "claude">> ELSE <<"claude", "grok">>

\* preferredProvider === 'claude' ? ['claude', 'grok'] : ['grok', 'claude']
Providers(preferredProvider) ==
    IF preferredProvider = "claude" THEN <<"claude", "grok">> ELSE <<"grok", "claude">>

\* the switch of the provider loop
CallProvider(provider, claude) ==
    CASE provider = "claude" -> claude
      [] provider = "grok" -> [ok |-> FALSE, error |-> Error(GrokMessage)]
      [] OTHER -> [ok |-> FALSE, error |-> Error(<<"Unknown AI provider:", provider>>)]

\* a loop that gives up at the first provider of the list
FirstProvider(providers) == providers[1]

\* providers[providers.length - 1]
LastProvider(providers) == providers[Len(providers)]

\* the provider loop of generateSummary and extractTopics, from provider k on;
\* calls lists the providers attempted
RECURSIVE TryProviders(_, _, _, _)
TryProviders(providers, k, claude, calls) ==
    IF k > Len(providers)
    THEN [ok |-> FALSE, calls |-> calls,
          error |-> AIProcessingError(<<"No AI providers available">>, "none", NoError)]
    ELSE LET provider == providers[k]
             out == CallProvider(provider, claude)
         IN IF out.ok
            THEN [ok |-> TRUE, calls |-> Append(calls, provider), provider |-> provider,
                  text |-> out.text, topics |-> out.topics,
                  tokensUsed |-> out.tokensUsed, cost |-> out.cost]
            ELSE IF provider = LastProvider(providers)
            THEN [ok |-> FALSE, calls |-> Append(calls, provider),
                  error |-> AIProcessingError(
                      <<"All AI providers failed. Last error:">>
                          \o MessageOf(out.error, "Unknown error"),
                      provider, out.error)]
            ELSE TryProviders(providers, k + 1, claude, Append(calls, provider))

generateSummary(request, claude, preferredProvider) ==
    TryProviders(Providers(preferredProvider), 1, claude, <<>>)

extractTopics(request, claude, preferredProvider) ==
    TryProviders(Providers(preferredProvider), 1, claude, <<>>)

\* the default of the parameter preferredProvider
DefaultProvider(preferredProvider) ==
    IF preferredProvider = NULL THEN "claude" ELSE preferredProvider

\* options.preferredProvider || 'claude'
PreferredOf(options) == DefaultProvider(options.preferredProvider)

\* analyzeContent: the summary, then the topics when they are asked for and the
\* summary has none; claude[1] and claude[2] are what the Claude client does on
\* its first and its second call
analyzeContent(transcript, claude, options) ==
    LET summary == generateSummary(transcript, claude[1], PreferredOf(options))
    IN IF ~summary.ok THEN [ok |-> FALSE, error |-> summary.error, calls |-> summary.calls]
       ELSE IF options.extractTopics /\ summary.topics = <<>>
       THEN LET topics == extractTopics(<<summary.text>>, claude[2], PreferredOf(options))
            IN IF ~topics.ok
               THEN [ok |-> FALSE, error |-> topics.error,
                     calls |-> summary.calls \o topics.calls]
               ELSE [ok |-> TRUE, summary |-> summary, topics |-> topics,
                     totalCost |-> summary.cost + topics.cost,
                     totalTokens |-> summary.tokensUsed + topics.tokensUsed,
                     calls |-> summary.calls \o topics.calls]
       ELSE [ok |-> TRUE, summary |-> summary, topics |-> NotCalled,
             totalCost |-> summary.cost, totalTokens |-> summary.tokensUsed,
             calls |-> summary.calls]

----------------------------------------------------------------------------
(* Request handlers *)

Slots == 1..NumSlots

NoResponse == [status |-> "none", estimatedCost |-> 0, error |-> <<>>, inner |-> "none"]

IdleRequest ==
    [pc |-> "idle", kind |-> "none", videoId |-> NULL, videos |-> <<>>, results |-> <<>>,
     listed |-> <<>>, sourceId |-> 0, itemId |-> 0, retryItem |-> 0, preexisting |-> FALSE,
     transcriptType |-> NULL, totalCost |-> 0, error |-> <<>>, response |-> NoResponse]

Ev(type, name) == [type |-> type, name |-> name]

Logged(s, e) == log' = [log EXCEPT ![s] = Append(@, e)]

\* what the metadata provider, the caption service and the AI service can do
\* during a pipeline run
PipelineCaptions ==
    {c \in CaptionOutcomes :
        \/ c.ok /\ c.items = <<"um", "so">>
        \/ ~c.ok /\ c.isError /\ c.message = <<"no", "transcript">>}

AnalysisOutcomes ==
    {[ok |-> TRUE, totalCost |-> 2, message |-> <<>>],
     [ok |-> FALSE, totalCost |-> 0,
      message |-> <<"All AI providers failed. Last error:", "Grok provider not yet implemented">>]}

\* rows of content_items a select matches
ItemsByUser(external_id, user_id) ==
    {i \in 1..Len(content_items) :
        content_items[i].external_id = external_id /\ content_items[i].user_id = user_id}

ItemsBySource(external_id, source_id) ==
    {i \in 1..Len(content_items) :
        content_items[i].external_id = external_id /\ content_items[i].source_id = source_id}

\* POST of the process endpoint: a result goes to processed, a throw to errors;
\* the retry endpoint wraps the whole response of the process endpoint
Respond(r, status, estimatedCost, error) ==
    [r EXCEPT !.pc = "done",
              !.response =
                  IF r.kind = "retry"
                  THEN [status |-> "retry_initiated", estimatedCost |-> estimatedCost,
                        error |-> error, inner |-> status]
                  ELSE [status |-> status, estimatedCost |-> estimatedCost,
                        error |-> error, inner |-> "none"]]

\* updateProcessingStep of route.ts: the rpc of update_processing_step
updateProcessingStep(s, contentItemId, step, details, errorInfo) ==
    /\ content_items' =
           update_processing_step(content_items, contentItemId, step, details, errorInfo)
    /\ stepWrites' = [stepWrites EXCEPT ![contentItemId] =
                          Append(@, [by |-> "orchestrator", step |-> step])]
    /\ Logged(s, Ev("step", step))

\* the errorDetails object of a catch block (its timestamp is left out)
ErrorDetails(message, step, videoId) ==
    [message |-> message, step |-> step, videoId |-> videoId, canRetry |-> TRUE]

----------------------------------------------------------------------------
(* processVideo, called by POST for a video URL *)

\* POST receives a video URL
StartVideo(s, v) ==
    /\ req[s].pc \in {"idle", "done"}
    /\ started' = started + 1
    /\ req' = [req EXCEPT ![s] =
                  [IdleRequest EXCEPT !.pc = "V_getVideoDetails", !.kind = "video",
                                      !.videoId = v,
                                      !.preexisting = ItemsByUser(v, userId) /= {}]]
    /\ log' = [log EXCEPT ![s] = <<Ev("run", v)>>]
    /\ UNCHANGED <<storeVars, stepWrites, retryCalls>>

\* await getVideoDetails(videoId): the details, or a throw that POST reports
V_getVideoDetails(s) ==
    /\ req[s].pc = "V_getVideoDetails"
    /\ \E found \in BOOLEAN :
          req' = [req EXCEPT ![s] =
                     IF found THEN [@ EXCEPT !.pc = "V_selectExisting"]
                     ELSE Respond(@, "error", 0, <<"Video not found:", @.videoId>>)]
    /\ Logged(s, Ev("call", "getVideoDetails"))
    /\ UNCHANGED <<storeVars, stepWrites, started, retryCalls>>

\* a processVideo that runs the pipeline again on the item it found
ReprocessExisting(r, existingItem) ==
    IF existingItem /= 0
    THEN [r EXCEPT !.itemId = existingItem, !.pc = "V_stepFetchingMetadata"]
    ELSE [r EXCEPT !.pc = "V_insertSource"]

\* if (existingItem) return { status: 'already_exists', estimatedCost: 0 }
ReturnIfExisting(r, existingItem) ==
    IF existingItem /= 0
    THEN Respond([r EXCEPT !.itemId = existingItem], "already_exists", 0, <<>>)
    ELSE [r EXCEPT !.pc = "V_insertSource"]

\* the lookup of an existing item and the already_exists return
V_selectExisting(s) ==
    /\ req[s].pc = "V_selectExisting"
    /\ req' = [req EXCEPT ![s] =
                  ReturnIfExisting(@, Single(ItemsByUser(req[s].videoId, userId)))]
    /\ Logged(s, Ev("select", "content_items"))
    /\ UNCHANGED <<storeVars, stepWrites, started, retryCalls>>

\* insert into content_sources: one source per submitted video
V_insertSource(s) ==
    /\ req[s].pc = "V_insertSource"
    /\ content_sources' = Append(content_sources,
           [user_id |-> userId, source_type |-> "youtube_video",
            source_url |-> <<"https://www.youtube.com/watch?v=", req[s].videoId>>])
    /\ req' = [req EXCEPT ![s].pc = "V_insertItem",
                          ![s].sourceId = Len(content_sources) + 1]
    /\ Logged(s, Ev("insert", "content_sources"))
    /\ UNCHANGED <<content_items, content_transcripts, generated_summaries, stepWrites, started, retryCalls>>

\* insert into content_items, current_step pending
V_insertItem(s) ==
    /\ req[s].pc = "V_insertItem"
    /\ IF ViolatesUnique(content_items, req[s].sourceId, req[s].videoId)
       THEN /\ req' = [req EXCEPT ![s] =
                          Respond(@, "error", 0, <<"Failed to create content item:">>)]
            /\ Logged(s, Ev("insert_error", "content_items"))
            /\ UNCHANGED <<content_items, stepWrites>>
       ELSE /\ content_items' =
                   Append(content_items, NewContentItem(req[s].sourceId, req[s].videoId))
            /\ stepWrites' = Append(stepWrites, <<[by |-> "orchestrator", step |-> "pending"]>>)
            /\ req' = [req EXCEPT ![s].pc = "V_stepFetchingMetadata",
                                  ![s].itemId = Len(content_items) + 1]
            /\ log' = [log EXCEPT ![s] =
                          @ \o <<Ev("insert", "content_items"), Ev("step", "pending")>>]
    /\ UNCHANGED <<content_sources, content_transcripts, generated_summaries, started, retryCalls>>

V_stepFetchingMetadata(s) ==
    /\ req[s].pc = "V_stepFetchingMetadata"
    /\ updateProcessingStep(s, req[s].itemId, "fetching_metadata",
                            {"videoId", "title", "duration"}, EmptyJson)
    /\ req' = [req EXCEPT ![s].pc = "V_stepExtractingTranscript"]
    /\ UNCHANGED <<content_sources, content_transcripts, generated_summaries, started, retryCalls>>

V_stepExtractingTranscript(s) ==
    /\ req[s].pc = "V_stepExtractingTranscript"
    /\ updateProcessingStep(s, req[s].itemId, "extracting_transcript", {"videoId"}, EmptyJson)
    /\ req' = [req EXCEPT ![s].pc = "V_getTranscript"]
    /\ UNCHANGED <<content_sources, content_transcripts, generated_summaries, started, retryCalls>>

\* await getTranscript(videoId), before the try block: a throw leaves processVideo
V_getTranscript(s) ==
    /\ req[s].pc = "V_getTranscript"
    /\ \E c \in PipelineCaptions :
          LET transcript == getTranscript(req[s].videoId, c)
          IN req' = [req EXCEPT ![s] =
                        IF transcript.ok
                        THEN [@ EXCEPT !.pc = "V_insertTranscript",
                                       !.transcriptType = transcript.transcriptType]
                        ELSE Respond(@, "error", 0, transcript.error.message)]
    /\ Logged(s, Ev("call", "getTranscript"))
    /\ UNCHANGED <<storeVars, stepWrites, started, retryCalls>>

\* what an insert of supabase-js resolves to: {error: null} or {error}
InsertOutcomes == {[error |-> NULL], [error |-> "write failed"]}

\* try: insert into content_transcripts; if (transcriptError) throw
V_insertTranscript(s) ==
    /\ req[s].pc = "V_insertTranscript"
    /\ \E out \in InsertOutcomes :
          IF out.error = NULL
          THEN /\ content_transcripts' = Append(content_transcripts,
                      [content_item_id |-> req[s].itemId,
                       transcript_type |-> req[s].transcriptType])
               /\ req' = [req EXCEPT ![s].pc = "V_stepAiProcessing"]
          ELSE /\ content_transcripts' = content_transcripts
               /\ req' = [req EXCEPT ![s].pc = "V_catch",
                                     ![s].error = <<"Failed to save transcript:", out.error>>]
    /\ Logged(s, Ev("insert", "content_transcripts"))
    /\ UNCHANGED <<content_sources, content_items, generated_summaries, stepWrites, started, retryCalls>>

V_stepAiProcessing(s) ==
    /\ req[s].pc = "V_stepAiProcessing"
    /\ updateProcessingStep(s, req[s].itemId, "ai_processing",
                            {"transcriptLength", "estimatedCost"}, EmptyJson)
    /\ req' = [req EXCEPT ![s].pc = "V_analyzeContent"]
    /\ UNCHANGED <<content_sources, content_transcripts, generated_summaries, started, retryCalls>>

\* await analyzeContent(...): a throw goes to the catch block
V_analyzeContent(s) ==
    /\ req[s].pc = "V_analyzeContent"
    /\ \E analysis \in AnalysisOutcomes :
          req' = [req EXCEPT ![s] =
                     IF analysis.ok
                     THEN [@ EXCEPT !.pc = "V_insertSummary", !.totalCost = analysis.totalCost]
                     ELSE [@ EXCEPT !.pc = "V_catch", !.error = analysis.message]]
    /\ Logged(s, Ev("call", "analyzeContent"))
    /\ UNCHANGED <<storeVars, stepWrites, started, retryCalls>>

\* insert into generated_summaries; if (summaryError) throw
V_insertSummary(s) ==
    /\ req[s].pc = "V_insertSummary"
    /\ \E out \in InsertOutcomes :
          IF out.error = NULL
          THEN /\ generated_summaries' =
                      Append(generated_summaries, [content_item_id |-> req[s].itemId])
               /\ req' = [req EXCEPT ![s].pc = "V_stepSavingData"]
          ELSE /\ generated_summaries' = generated_summaries
               /\ req' = [req EXCEPT ![s].pc = "V_catch",
                                     ![s].error = <<"Failed to save summary:", out.error>>]
    /\ Logged(s, Ev("insert", "generated_summaries"))
    /\ UNCHANGED <<content_sources, content_items, content_transcripts, stepWrites, started, retryCalls>>

\* the topics saved after this step are in tables the model does not hold
V_stepSavingData(s) ==
    /\ req[s].pc = "V_stepSavingData"
    /\ updateProcessingStep(s, req[s].itemId, "saving_data", {"analysisComplete"}, EmptyJson)
    /\ req' = [req EXCEPT ![s].pc = "V_stepCompleted"]
    /\ UNCHANGED <<content_sources, content_transcripts, generated_summaries, started, retryCalls>>

V_stepCompleted(s) ==
    /\ req[s].pc = "V_stepCompleted"
    /\ updateProcessingStep(s, req[s].itemId, "completed",
                            {"summary", "topicsCount", "totalCost"}, EmptyJson)
    /\ req' = [req EXCEPT ![s] = Respond(@, "completed", @.totalCost, <<>>)]
    /\ UNCHANGED <<content_sources, content_transcripts, generated_summaries, started, retryCalls>>

\* catch (processingError): record failed, then rethrow to POST
V_catch(s) ==
    /\ req[s].pc = "V_catch"
    /\ updateProcessingStep(s, req[s].itemId, "failed", {},
                            ErrorDetails(req[s].error, "ai_processing", req[s].videoId))
    /\ req' = [req EXCEPT ![s] = Respond(@, "error", 0, @.error)]
    /\ UNCHANGED <<content_sources, content_transcripts, generated_summaries, started, retryCalls>>

----------------------------------------------------------------------------
(* processChannel and processChannelVideo, called by POST for a channel URL *)

ChannelUrl == <<"https://www.youtube.com/channel/", "c1">>

\* what getChannelVideos can return for the channel
ChannelVideoLists == {<<"v1">>, <<"v2", "v1">>}

RECURSIVE SumCost(_)
SumCost(results) ==
    IF results = <<>> THEN 0 ELSE Head(results).estimatedCost + SumCost(Tail(results))

SourcesByUrl(source_url, user_id) ==
    {i \in 1..Len(content_sources) :
        content_sources[i].source_url = source_url /\ content_sources[i].user_id = user_id}

\* the for loop of processChannel: the result (or the caught throw) of one
\* processChannelVideo is pushed, then the next video starts or the channel returns
EndChannelVideo(s, ev, status, estimatedCost) ==
    LET r == req[s]
        rest == Tail(r.videos)
        results == Append(r.results, [videoId |-> r.videoId, status |-> status,
                                      estimatedCost |-> estimatedCost])
    IN /\ req' = [req EXCEPT ![s] =
                     IF rest = <<>>
                     THEN Respond([r EXCEPT !.videos = rest, !.results = results],
                                  "completed", SumCost(results), <<>>)
                     ELSE [r EXCEPT !.pc = "CV_selectExisting", !.videos = rest,
                                    !.results = results, !.videoId = Head(rest),
                                    !.itemId = 0, !.transcriptType = NULL, !.totalCost = 0,
                                    !.error = <<>>,
                                    !.preexisting = ItemsBySource(Head(rest), r.sourceId) /= {}]]
       /\ log' = [log EXCEPT ![s] =
                     IF rest = <<>> THEN Append(@, ev) ELSE @ \o <<ev, Ev("run", Head(rest))>>]

\* POST receives a channel URL
StartChannel(s) ==
    /\ req[s].pc \in {"idle", "done"}
    /\ started' = started + 1
    /\ req' = [req EXCEPT ![s] = [IdleRequest EXCEPT !.pc = "C_getChannelDetails",
                                                     !.kind = "channel"]]
    /\ log' = [log EXCEPT ![s] = <<>>]
    /\ UNCHANGED <<storeVars, stepWrites, retryCalls>>

\* await resolveChannelId, await getChannelDetails: a null or a throw ends the request
C_getChannelDetails(s) ==
    /\ req[s].pc = "C_getChannelDetails"
    /\ \E found \in BOOLEAN :
          req' = [req EXCEPT ![s] =
                     IF found THEN [@ EXCEPT !.pc = "C_selectSource"]
                     ELSE Respond(@, "error", 0, <<"Channel not found:", "c1">>)]
    /\ Logged(s, Ev("call", "getChannelDetails"))
    /\ UNCHANGED <<storeVars, stepWrites, started, retryCalls>>

\* the lookup of the channel's content source
C_selectSource(s) ==
    /\ req[s].pc = "C_selectSource"
    /\ LET existingSource == Single(SourcesByUrl(ChannelUrl, userId))
       IN req' = [req EXCEPT ![s] =
                     IF existingSource /= 0
                     THEN [@ EXCEPT !.pc = "C_getChannelVideos", !.sourceId = existingSource]
                     ELSE [@ EXCEPT !.pc = "C_insertSource"]]
    /\ Logged(s, Ev("select", "content_sources"))
    /\ UNCHANGED <<storeVars, stepWrites, started, retryCalls>>

C_insertSource(s) ==
    /\ req[s].pc = "C_insertSource"
    /\ content_sources' = Append(content_sources,
           [user_id |-> userId, source_type |-> "youtube_channel", source_url |-> ChannelUrl])
    /\ req' = [req EXCEPT ![s].pc = "C_getChannelVideos",
                          ![s].sourceId = Len(content_sources) + 1]
    /\ Logged(s, Ev("insert", "content_sources"))
    /\ UNCHANGED <<content_items, content_transcripts, generated_summaries, stepWrites, started, retryCalls>>

\* await getChannelVideos; the loop then calls processChannelVideo for the first video
C_getChannelVideos(s) ==
    /\ req[s].pc = "C_getChannelVideos"
    /\ \E videos \in ChannelVideoLists :
          /\ req' = [req EXCEPT ![s] =
                        [@ EXCEPT !.pc = "CV_selectExisting", !.videos = videos,
                                  !.listed = videos, !.videoId = Head(videos),
                                  !.preexisting =
                                      ItemsBySource(Head(videos), req[s].sourceId) /= {}]]
          /\ log' = [log EXCEPT ![s] =
                        @ \o <<Ev("call", "getChannelVideos"), Ev("run", Head(videos))>>]
    /\ UNCHANGED <<storeVars, stepWrites, started, retryCalls>>

\* processChannelVideo: the lookup of an existing item of this source
CV_selectExisting(s) ==
    /\ req[s].pc = "CV_selectExisting"
    /\ LET existingItem == Single(ItemsBySource(req[s].videoId, req[s].sourceId))
       IN IF existingItem /= 0
          THEN EndChannelVideo(s, Ev("select", "content_items"), "already_exists", 0)
          ELSE /\ req' = [req EXCEPT ![s].pc = "CV_insertItem"]
               /\ Logged(s, Ev("select", "content_items"))
    /\ UNCHANGED <<storeVars, stepWrites, started, retryCalls>>

\* insert into content_items; the UNIQUE constraint makes it throw
CV_insertItem(s) ==
    /\ req[s].pc = "CV_insertItem"
    /\ IF ViolatesUnique(content_items, req[s].sourceId, req[s].videoId)
       THEN /\ EndChannelVideo(s, Ev("insert_error", "content_items"), "failed", 0)
            /\ UNCHANGED <<content_items, stepWrites>>
       ELSE /\ content_items' =
                   Append(content_items, NewContentItem(req[s].sourceId, req[s].videoId))
            /\ stepWrites' = Append(stepWrites, <<[by |-> "orchestrator", step |-> "pending"]>>)
            /\ req' = [req EXCEPT ![s].pc = "CV_stepExtractingTranscript",
                                  ![s].itemId = Len(content_items) + 1]
            /\ log' = [log EXCEPT ![s] =
                          @ \o <<Ev("insert", "content_items"), Ev("step", "pending")>>]
    /\ UNCHANGED <<content_sources, content_transcripts, generated_summaries, started, retryCalls>>

CV_stepExtractingTranscript(s) ==
    /\ req[s].pc = "CV_stepExtractingTranscript"
    /\ updateProcessingStep(s, req[s].itemId, "extracting_transcript", {"videoId"}, EmptyJson)
    /\ req' = [req EXCEPT ![s].pc = "CV_getTranscript"]
    /\ UNCHANGED <<content_sources, content_transcripts, generated_summaries, started, retryCalls>>

\* await getTranscript(video.id), before the try block: a throw leaves
\* processChannelVideo and is caught by the loop of processChannel
CV_getTranscript(s) ==
    /\ req[s].pc = "CV_getTranscript"
    /\ \E c \in PipelineCaptions :
          LET transcript == getTranscript(req[s].videoId, c)
          IN IF transcript.ok
             THEN /\ req' = [req EXCEPT ![s].pc = "CV_insertTranscript",
                                        ![s].transcriptType = transcript.transcriptType]
                  /\ Logged(s, Ev("call", "getTranscript"))
             ELSE EndChannelVideo(s, Ev("call", "getTranscript"), "failed", 0)
    /\ UNCHANGED <<storeVars, stepWrites, started, retryCalls>>

\* insert into content_transcripts: the response is not looked at
CV_insertTranscript(s) ==
    /\ req[s].pc = "CV_insertTranscript"
    /\ \E out \in InsertOutcomes :
          content_transcripts' =
              IF out.error = NULL
              THEN Append(content_transcripts,
                          [content_item_id |-> req[s].itemId,
                           transcript_type |-> req[s].transcriptType])
              ELSE content_transcripts
    /\ req' = [req EXCEPT ![s].pc = "CV_stepAiProcessing"]
    /\ Logged(s, Ev("insert", "content_transcripts"))
    /\ UNCHANGED <<content_sources, content_items, generated_summaries, stepWrites, started, retryCalls>>

CV_stepAiProcessing(s) ==
    /\ req[s].pc = "CV_stepAiProcessing"
    /\ updateProcessingStep(s, req[s].itemId, "ai_processing",
                            {"transcriptLength", "estimatedCost"}, EmptyJson)
    /\ req' = [req EXCEPT ![s].pc = "CV_analyzeContent"]
    /\ UNCHANGED <<content_sources, content_transcripts, generated_summaries, started, retryCalls>>

CV_analyzeContent(s) ==
    /\ req[s].pc = "CV_analyzeContent"
    /\ \E analysis \in AnalysisOutcomes :
          req' = [req EXCEPT ![s] =
                     IF analysis.ok
                     THEN [@ EXCEPT !.pc = "CV_insertSummary", !.totalCost = analysis.totalCost]
                     ELSE [@ EXCEPT !.pc = "CV_catch", !.error = analysis.message]]
    /\ Logged(s, Ev("call", "analyzeContent"))
    /\ UNCHANGED <<storeVars, stepWrites, started, retryCalls>>

\* insert into generated_summaries: the response is not looked at
CV_insertSummary(s) ==
    /\ req[s].pc = "CV_insertSummary"
    /\ \E out \in InsertOutcomes :
          generated_summaries' =
              IF out.error = NULL
              THEN Append(generated_summaries, [content_item_id |-> req[s].itemId])
              ELSE generated_summaries
    /\ req' = [req EXCEPT ![s].pc = "CV_stepSavingData"]
    /\ Logged(s, Ev("insert", "generated_summaries"))
    /\ UNCHANGED <<content_sources, content_items, content_transcripts, stepWrites, started, retryCalls>>

CV_stepSavingData(s) ==
    /\ req[s].pc = "CV_stepSavingData"
    /\ updateProcessingStep(s, req[s].itemId, "saving_data", {"analysisComplete"}, EmptyJson)
    /\ req' = [req EXCEPT ![s].pc = "CV_stepCompleted"]
    /\ UNCHANGED <<content_sources, content_transcripts, generated_summaries, started, retryCalls>>

CV_stepCompleted(s) ==
    /\ req[s].pc = "CV_stepCompleted"
    /\ content_items' = update_processing_step(content_items, req[s].itemId, "completed",
                                               {"summary", "totalCost"}, EmptyJson)
    /\ stepWrites' = [stepWrites EXCEPT ![req[s].itemId] =
                          Append(@, [by |-> "orchestrator", step |-> "completed"])]
    /\ EndChannelVideo(s, Ev("step", "completed"), "completed", req[s].totalCost)
    /\ UNCHANGED <<content_sources, content_transcripts, generated_summaries, started, retryCalls>>

\* catch (processingError): record failed, then rethrow to the loop of processChannel
CV_catch(s) ==
    /\ req[s].pc = "CV_catch"
    /\ content_items' = update_processing_step(content_items, req[s].itemId, "failed", {},
           ErrorDetails(req[s].error, "channel_video_processing", req[s].videoId))
    /\ stepWrites' = [stepWrites EXCEPT ![req[s].itemId] =
                          Append(@, [by |-> "orchestrator", step |-> "failed"])]
    /\ EndChannelVideo(s, Ev("step", "failed"), "failed", 0)
    /\ UNCHANGED <<content_sources, content_transcripts, generated_summaries, started, retryCalls>>

----------------------------------------------------------------------------
(* POST of the retry endpoint *)

RespondRetry(r, status) ==
    [r EXCEPT !.pc = "done",
              !.response = [status |-> status, estimatedCost |-> 0, error |-> <<>>,
                            inner |-> "none"]]

\* POST receives { contentItemId }; 0 stands for a missing id (400)
StartRetry(s, contentItemId) ==
    /\ req[s].pc \in {"idle", "done"}
    /\ started' = started + 1
    /\ req' = [req EXCEPT ![s] =
                  IF contentItemId = 0
                  THEN RespondRetry([IdleRequest EXCEPT !.kind = "retry"], "id_required")
                  ELSE [IdleRequest EXCEPT !.pc = "R_select", !.kind = "retry",
                                           !.retryItem = contentItemId]]
    /\ log' = [log EXCEPT ![s] = <<>>]
    /\ retryCalls' = retryCalls (+) SetToBag({contentItemId})
    /\ UNCHANGED <<storeVars, stepWrites>>

\* select the item; 404 when there is none, 400 when can_retry is false
R_select(s) ==
    /\ req[s].pc = "R_select"
    /\ LET id == req[s].retryItem
       IN req' = [req EXCEPT ![s] =
                     IF id \notin 1..Len(content_items)
                     THEN RespondRetry(@, "not_found")
                     ELSE IF ~content_items[id].can_retry
                     THEN RespondRetry(@, "exceeded_maximum_retry_attempts")
                     ELSE [@ EXCEPT !.pc = "R_increment",
                                    !.videoId = content_items[id].external_id]]
    /\ Logged(s, Ev("select", "content_items"))
    /\ UNCHANGED <<storeVars, stepWrites, started, retryCalls>>

\* const canRetry = await serverClient.rpc('increment_retry_count', ...);
\* if (!canRetry) 400
R_increment(s) ==
    /\ req[s].pc = "R_increment"
    /\ LET id == req[s].retryItem
           canRetry == RpcResponse(increment_retry_count_result(content_items, id, max_retries))
       IN /\ content_items' = increment_retry_count(content_items, id, max_retries)
          /\ stepWrites' = [stepWrites EXCEPT ![id] =
                                Append(@, [by |-> "retry", step |-> "pending"])]
          /\ req' = [req EXCEPT ![s] =
                        IF ~IsTruthy(canRetry)
                        THEN RespondRetry(@, "maximum_retry_attempts_reached")
                        ELSE [@ EXCEPT !.pc = "R_reset"]]
    /\ Logged(s, Ev("step", "pending"))
    /\ UNCHANGED <<content_sources, content_transcripts, generated_summaries, started, retryCalls>>

\* update current_step = pending, error_details = {}; then the fetch of the
\* process endpoint with the item's video URL, which runs processVideo
R_reset(s) ==
    /\ req[s].pc = "R_reset"
    /\ LET id == req[s].retryItem
       IN /\ content_items' = [content_items EXCEPT ![id] =
                                   [@ EXCEPT !.current_step = "pending",
                                             !.error_details = EmptyJson]]
          /\ stepWrites' = [stepWrites EXCEPT ![id] =
                                Append(@, [by |-> "retry", step |-> "pending"])]
    /\ req' = [req EXCEPT ![s].pc = "V_getVideoDetails",
                          ![s].preexisting = ItemsByUser(req[s].videoId, userId) /= {}]
    /\ log' = [log EXCEPT ![s] = @ \o <<Ev("step", "pending"), Ev("run", req[s].videoId)>>]
    /\ UNCHANGED <<content_sources, content_transcripts, generated_summaries, started, retryCalls>>

----------------------------------------------------------------------------
(* The error classes' canRetry and the error report of POST *)

\* ClaudeAPIError.canRetry
ClaudeCanRetry(error) == error.errorType \in {"rate_limit", "quota_exceeded", "timeout"}

\* TranscriptError.canRetry
TranscriptCanRetry(error) == error.errorType \in {"youtube_api_error", "whisper_failed"}

\* YouTubeAPIError.canRetry
YouTubeCanRetry(error) == error.errorType = "quota_exceeded"

\* 'getUserFriendlyMessage' in error: the classes that define the method
HasGetUserFriendlyMessage(error) ==
    error.name \in {"ClaudeAPIError", "TranscriptError", "YouTubeAPIError"}

\* error.canRetry?.() || false
CanRetryOf(error) ==
    CASE error.name = "ClaudeAPIError" -> ClaudeCanRetry(error)
      [] error.name = "TranscriptError" -> TranscriptCanRetry(error)
      [] error.name = "YouTubeAPIError" -> YouTubeCanRetry(error)
      [] OTHER -> FALSE

\* error instanceof Error
InstanceOfError(error) == error.name /= "undefined"

\* the errorDetails POST reports for a throw of processVideo or processChannel
\* (the user-facing texts are left out)
PostErrorDetails(error) ==
    IF InstanceOfError(error) /\ HasGetUserFriendlyMessage(error)
    THEN [message |-> error.message, canRetry |-> CanRetryOf(error)]
    ELSE [message |-> IF InstanceOfError(error) THEN error.message ELSE <<"Unknown error">>]

----------------------------------------------------------------------------
(* Calls of lib/ai *)

\* the inputs of one call: analyzeContent calls the Claude client up to twice
AIInputs ==
    [fn : {"generateSummary", "extractTopics"}, preferredProvider : AIProviders \cup {NULL},
     extractTopics : {FALSE}, claude : {<<c, c>> : c \in ClaudeOutcomes}]
    \cup [fn : {"analyzeContent"}, preferredProvider : AIProviders \cup {NULL},
          extractTopics : BOOLEAN, claude : ClaudeOutcomes \X ClaudeOutcomes]

NoAICall == [pc |-> "none", in |-> NotCalled, out |-> NotCalled, surfaced |-> NotCalled]

AI_generateSummary ==
    /\ ai.pc = "idle" /\ ai.in.fn = "generateSummary"
    /\ ai' = [ai EXCEPT !.pc = "settled",
                        !.out = generateSummary("request", ai.in.claude[1],
                                                DefaultProvider(ai.in.preferredProvider))]

AI_extractTopics ==
    /\ ai.pc = "idle" /\ ai.in.fn = "extractTopics"
    /\ ai' = [ai EXCEPT !.pc = "settled",
                        !.out = extractTopics("request", ai.in.claude[1],
                                              DefaultProvider(ai.in.preferredProvider))]

AI_analyzeContent ==
    /\ ai.pc = "idle" /\ ai.in.fn = "analyzeContent"
    /\ ai' = [ai EXCEPT !.pc = "settled",
                        !.out = analyzeContent("transcript", ai.in.claude,
                                    [preferredProvider |-> ai.in.preferredProvider,
                                     extractTopics |-> ai.in.extractTopics])]

\* the throw of analyzeContent is rethrown unchanged by the catch of
\* processVideo and reported by the catch of POST
AI_postCatch ==
    /\ ai.pc = "settled" /\ ai.in.fn = "analyzeContent" /\ ~ai.out.ok
    /\ ai' = [ai EXCEPT !.pc = "reported", !.surfaced = PostErrorDetails(ai.out.error)]

AIInit ==
    /\ content_sources = <<>>
    /\ content_items = <<>>
    /\ content_transcripts = <<>>
    /\ generated_summaries = <<>>
    /\ stepWrites = <<>>
    /\ req = [s \in Slots |-> IdleRequest]
    /\ log = [s \in Slots |-> <<>>]
    /\ started = 0
    /\ retryCalls = EmptyBag
    /\ tIn = NULL
    /\ tOut = NotCalled
    /\ ai \in {[pc |-> "idle", in |-> i, out |-> NotCalled, surfaced |-> NotCalled] :
                  i \in AIInputs}
    /\ batchAI = NotCalled
    /\ batch = NotCalled
    /\ rpc = NotCalled

AINext ==
    /\ \/ AI_generateSummary
       \/ AI_extractTopics
       \/ AI_analyzeContent
       \/ AI_postCatch
    /\ UNCHANGED <<pipeVars, transcriptVars, batchAI, batch, rpc>>

SpecAI == AIInit /\ [][AINext]_vars

----------------------------------------------------------------------------
(* lib/ai: batchAnalyzeContent *)

DefaultMaxConcurrent == 3

\* options.maxConcurrent || 3
MaxConcurrentOf(options) ==
    IF "maxConcurrent" \notin DOMAIN options \/ options.maxConcurrent = 0
    THEN DefaultMaxConcurrent
    ELSE options.maxConcurrent

Min(a, b) == IF a < b THEN a ELSE b

\* a slice that also takes the element at index end
SliceInclusive(seq, start, end) == SubSeq(seq, start + 1, Min(end + 1, Len(seq)))

Max(a, b) == IF a < b THEN b ELSE a

\* how slice reads an index: a negative one counts from the end, and the
\* result is clamped to 0..length
RelativeIndex(k, len) == IF k < 0 THEN Max(len + k, 0) ELSE Min(k, len)

\* Array.prototype.slice(start, end): indices from 0, end excluded, empty when
\* the end is not after the start
Slice(seq, start, end) ==
    SubSeq(seq, RelativeIndex(start, Len(seq)) + 1, RelativeIndex(end, Len(seq)))

Range(seq) == {seq[k] : k \in 1..Len(seq)}

\* a combinator that is fulfilled as soon as one promise is
PromiseAnyFulfilled(status, chunk) == \E j \in Range(chunk) : status[j] = "ok"

\* Promise.all is fulfilled when every promise is, with the values in order
PromiseAllFulfilled(status, chunk) == \A j \in Range(chunk) : status[j] = "ok"

\* Promise.all is rejected as soon as one promise is
PromiseAllRejected(status, chunk) == \E j \in Range(chunk) : status[j] = "failed"

\* what the Claude client does for one item of a batch
BatchClaudeOutcomes ==
    {c \in ClaudeOutcomes :
        \/ c.ok /\ c.text = "summary-a" /\ c.topics = <<>> /\ c.tokensUsed = 100 /\ c.cost = 1
        \/ ~c.ok /\ c.error.errorType = "rate_limit"}

\* the inputs of one call: the contents are numbered in input order
BatchInputs ==
    [n : 0..MaxItems,
     options : {EmptyJson} \cup {[maxConcurrent |-> m] : m \in 0..MaxConcurrentOption}]

Contents(n) == [k \in 1..n |-> k]

\* the loop test, and the return after the last chunk
BA_loop ==
    /\ batchAI.pc = "loop"
    /\ IF batchAI.i < batchAI.n
       THEN LET m == MaxConcurrentOf(batchAI.options)
                chunk == Slice(Contents(batchAI.n), batchAI.i, batchAI.i + m)
            IN batchAI' = [batchAI EXCEPT
                   !.pc = "awaitAll",
                   !.chunks = Append(@, chunk),
                   !.status = [j \in 1..batchAI.n |->
                                  IF j \in Range(chunk) THEN "inFlight" ELSE @[j]]]
       ELSE batchAI' = [batchAI EXCEPT !.pc = "returned"]

\* one invocation of analyzeContent settles
BA_settle(j) ==
    /\ batchAI.pc /= "none"
    /\ j \in 1..batchAI.n
    /\ batchAI.status[j] = "inFlight"
    /\ \E c \in BatchClaudeOutcomes :
          LET out == analyzeContent("transcript", <<c, c>>,
                                    [preferredProvider |-> NULL, extractTopics |-> FALSE])
          IN batchAI' = [batchAI EXCEPT
                 !.status[j] = IF out.ok THEN "ok" ELSE "failed"]

\* a test that also waits after a chunk that ends the list
MoreContentsLeftOrNone(i, maxConcurrent, length) == i + maxConcurrent <= length

\* if (i + maxConcurrent < contents.length)
MoreContentsLeft(i, maxConcurrent, length) == i + maxConcurrent < length

\* await Promise.all(batchPromises) returns: push the results, then the delay
\* when more contents are left
BA_allFulfilled ==
    /\ batchAI.pc = "awaitAll"
    /\ LET chunk == batchAI.chunks[Len(batchAI.chunks)]
           m == MaxConcurrentOf(batchAI.options)
       IN /\ PromiseAllFulfilled(batchAI.status, chunk)
          /\ batchAI' = [batchAI EXCEPT
                 !.results = @ \o chunk,
                 !.pc = IF MoreContentsLeft(batchAI.i, m, batchAI.n)
                        THEN "delay" ELSE "loop",
                 !.i = IF MoreContentsLeft(batchAI.i, m, batchAI.n) THEN @ ELSE @ + m]

\* await Promise.all(batchPromises) throws: batchAnalyzeContent throws
BA_rejected ==
    /\ batchAI.pc = "awaitAll"
    /\ PromiseAllRejected(batchAI.status, batchAI.chunks[Len(batchAI.chunks)])
    /\ batchAI' = [batchAI EXCEPT !.pc = "thrown"]

\* the setTimeout of 1000 ms between two chunks elapses; delays counts them
BA_delayElapsed ==
    /\ batchAI.pc = "delay"
    /\ batchAI' = [batchAI EXCEPT
           !.pc = "loop",
           !.delays = @ + 1,
           !.i = @ + MaxConcurrentOf(batchAI.options)]

BatchAIInit ==
    /\ content_sources = <<>>
    /\ content_items = <<>>
    /\ content_transcripts = <<>>
    /\ generated_summaries = <<>>
    /\ stepWrites = <<>>
    /\ req = [s \in Slots |-> IdleRequest]
    /\ log = [s \in Slots |-> <<>>]
    /\ started = 0
    /\ retryCalls = EmptyBag
    /\ tIn = NULL
    /\ tOut = NotCalled
    /\ ai = NoAICall
    /\ batchAI \in {[pc |-> "loop", n |-> in.n, options |-> in.options, i |-> 0,
                     status |-> [j \in 1..in.n |-> "notStarted"],
                     chunks |-> <<>>, results |-> <<>>, delays |-> 0] : in \in BatchInputs}
    /\ batch = NotCalled
    /\ rpc = NotCalled

BatchAINext ==
    /\ \/ BA_loop
       \/ \E j \in 1..MaxItems : BA_settle(j)
       \/ BA_allFulfilled
       \/ BA_rejected
       \/ BA_delayElapsed
    /\ UNCHANGED <<pipeVars, transcriptVars, ai, batch, rpc>>

SpecBatchAI == BatchAIInit /\ [][BatchAINext]_vars

\* the calls whose option maxConcurrent is any number, negative ones included
AnyBatchInputs ==
    [n : 0..MaxItems,
     options : {EmptyJson}
               \cup {[maxConcurrent |-> m] : m \in (0 - MaxNegativeOption)..MaxConcurrentOption}]

AnyBatchAIInit ==
    /\ content_sources = <<>>
    /\ content_items = <<>>
    /\ content_transcripts = <<>>
    /\ generated_summaries = <<>>
    /\ stepWrites = <<>>
    /\ req = [s \in Slots |-> IdleRequest]
    /\ log = [s \in Slots |-> <<>>]
    /\ started = 0
    /\ retryCalls = EmptyBag
    /\ tIn = NULL
    /\ tOut = NotCalled
    /\ ai = NoAICall
    /\ batchAI \in {[pc |-> "loop", n |-> in.n, options |-> in.options, i |-> 0,
                     status |-> [j \in 1..in.n |-> "notStarted"],
                     chunks |-> <<>>, results |-> <<>>, delays |-> 0] : in \in AnyBatchInputs}
    /\ batch = NotCalled
    /\ rpc = NotCalled

\* the same steps; the loop is followed for at most MaxLoopPasses passes
AnyBatchAINext ==
    /\ \/ Len(batchAI.chunks) < MaxLoopPasses /\ BA_loop
       \/ \E j \in 1..MaxItems : BA_settle(j)
       \/ BA_allFulfilled
       \/ BA_rejected
       \/ BA_delayElapsed
    /\ UNCHANGED <<pipeVars, transcriptVars, ai, batch, rpc>>

SpecAnyBatchAI == AnyBatchAIInit /\ [][AnyBatchAINext]_vars

----------------------------------------------------------------------------
(* lib/ai: model choice and cost estimate *)

\* getOptimalModelConfig; temperature in tenths, costPerToken in 1/100000 dollar
getOptimalModelConfig(contentLength) ==
    IF contentLength < 1000
    THEN [model |-> "claude-3-haiku", temperature |-> 3, maxTokens |-> 1500,
          costPerToken |-> 25]
    ELSE IF contentLength < 5000
    THEN [model |-> "claude-3-sonnet", temperature |-> 3, maxTokens |-> 3000,
          costPerToken |-> 300]
    ELSE [model |-> "claude-3-sonnet", temperature |-> 2, maxTokens |-> 4000,
          costPerToken |-> 300]

\* Math.ceil(n / d) for n >= 0, d > 0
Ceil(n, d) == (n + d - 1) \div d

\* an estimate whose surcharge is on the wrong branch of the final conditional
estimateCostSwapped(contentLength, includeTopics, provider) ==
    LET config == getOptimalModelConfig(contentLength)
        estimatedInputTokens == Ceil(contentLength, 4)
        estimatedOutputTokens == IF includeTopics THEN 800 ELSE 500
        baseCost == estimatedInputTokens * config.costPerToken
                    + estimatedOutputTokens * (config.costPerToken * 5)
    IN IF includeTopics THEN baseCost * 2 ELSE baseCost * 3

\* estimateCost, as an exact number of 1/200000000 dollar: baseCost is the
\* code's baseCost times 1000 * 100000, the result twice that so that the
\* factor 1.5 stays an integer
estimateCost(contentLength, includeTopics, provider) ==
    LET config == getOptimalModelConfig(contentLength)
        estimatedInputTokens == Ceil(contentLength, 4)
        estimatedOutputTokens == IF includeTopics THEN 800 ELSE 500
        baseCost == estimatedInputTokens * config.costPerToken
                    + estimatedOutputTokens * (config.costPerToken * 5)
    IN IF includeTopics THEN baseCost * 3 ELSE baseCost * 2

\* the calls of estimateCost: every content length up to the bound
CostInputs ==
    [fn : {"estimateCost"}, contentLength : 0..MaxContentLength,
     includeTopics : BOOLEAN, provider : AIProviders]

AI_estimateCost ==
    /\ ai.pc = "idle" /\ ai.in.fn = "estimateCost"
    /\ ai' = [ai EXCEPT !.pc = "settled",
                        !.out = [config |-> getOptimalModelConfig(ai.in.contentLength),
                                 cost |-> estimateCost(ai.in.contentLength,
                                                       ai.in.includeTopics,
                                                       ai.in.provider)]]

CostInit ==
    /\ content_sources = <<>>
    /\ content_items = <<>>
    /\ content_transcripts = <<>>
    /\ generated_summaries = <<>>
    /\ stepWrites = <<>>
    /\ req = [s \in Slots |-> IdleRequest]
    /\ log = [s \in Slots |-> <<>>]
    /\ started = 0
    /\ retryCalls = EmptyBag
    /\ tIn = NULL
    /\ tOut = NotCalled
    /\ ai \in {[pc |-> "idle", in |-> i, out |-> NotCalled, surfaced |-> NotCalled] :
                  i \in CostInputs}
    /\ batchAI = NotCalled
    /\ batch = NotCalled
    /\ rpc = NotCalled

CostNext == AI_estimateCost /\ UNCHANGED <<pipeVars, transcriptVars, batchAI, batch, rpc>>

SpecCost == CostInit /\ [][CostNext]_vars

----------------------------------------------------------------------------
(* lib/claude: the parsing of a response and the classification of a failure *)

\* JSON values, by their JavaScript type; a number is given in hundredths
Undefined == [type |-> "undefined"]
Str(text) == [type |-> "string", value |-> text]
Num(hundredths) == [type |-> "number", value |-> hundredths]
Arr(items) == [type |-> "array", value |-> items]

\* the confidence values a response can hold: numbers inside and outside 0..1,
\* or no number at all
ConfidenceValues ==
    {Num(n) : n \in (0 - MaxConfidenceExcess)..(100 + MaxConfidenceExcess)}
    \cup {Undefined, Str("high")}

\* what JSON.parse makes of the text of a response
ParsedTexts ==
    [json : {"invalid", "null"}, text : {"plain text"}]
    \cup [json : {"object"}, text : {"json text"},
          title : {Undefined, Str("Title")},
          summary : {Undefined, Str("Body")},
          keyPoints : {Undefined, Arr(<<"point">>)},
          topics : {Str("none"), Arr(<<"topic">>)},
          relationships : {Undefined},
          confidence : ConfidenceValues]

\* x || fallback for a string or undefined x
OrElse(x, fallback) == IF x.type = "string" /\ x.value /= "" THEN x.value ELSE fallback

\* Array.isArray(x) ? x : []
ArrayOrEmpty(x) == IF x.type = "array" THEN x.value ELSE <<>>

\* parsesSummaryResponse: the catch covers a text that is not JSON and the
\* TypeError of reading a field of null
parsesSummaryResponse(text) ==
    IF text.json = "object"
    THEN [title |-> OrElse(text.title, "Summary"),
          summary |-> OrElse(text.summary, ""),
          keyPoints |-> ArrayOrEmpty(text.keyPoints),
          topics |-> ArrayOrEmpty(text.topics),
          confidence |-> IF text.confidence.type = "number"
                         THEN text.confidence.value ELSE 80]
    ELSE [title |-> "Summary", summary |-> text.text, keyPoints |-> <<>>,
          topics |-> <<>>, confidence |-> 50]

parseTopicsResponse(text) ==
    IF text.json = "object"
    THEN [topics |-> ArrayOrEmpty(text.topics),
          relationships |-> ArrayOrEmpty(text.relationships)]
    ELSE [topics |-> <<>>, relationships |-> <<>>]

\* the kinds errorType of ClaudeAPIError can take
ClaudeErrorTypes ==
    {"rate_limit", "token_limit", "context_too_long", "api_key_invalid", "quota_exceeded",
     "timeout", "unknown"}

\* what anthropic.messages.create can throw: an APIError of the SDK with its
\* HTTP status (none for a connection error), another Error, or a value that
\* is no Error
ApiErrorMessages ==
    {<<"rate", "limit", "exceeded">>, <<"invalid", "x-api-key">>,
     <<"max", "token", "count", "exceeded">>, <<"request", "too large">>,
     <<"context_length_exceeded">>, <<"quota", "exceeded">>, <<"overloaded">>,
     <<"request", "timed", "out">>}

RawFailures ==
    [instanceOf : {"APIError"}, isError : {TRUE}, name : {"Error"},
     status : {"400", "401", "402", "403", "429", "500", "529", NULL},
     message : ApiErrorMessages]
    \cup [instanceOf : {"Error"}, isError : {TRUE}, name : {"TimeoutError", "TypeError"},
          status : {NULL}, message : {<<"request", "timed", "out">>, <<"quota", "exceeded">>}]
    \cup [instanceOf : {"none"}, isError : {FALSE}, name : {NULL}, status : {NULL},
          message : {<<>>}]

\* the errorType the catch block of generateSummary and extractTopics chooses
ClaudeErrorType(error) ==
    IF error.instanceOf = "APIError"
    THEN IF error.status = "429" THEN "rate_limit"
         ELSE IF error.status = "401" THEN "api_key_invalid"
         ELSE IF includes(error.message, <<"token">>)
                 \/ includes(error.message, <<"too large">>)
         THEN "token_limit"
         ELSE IF includes(error.message, <<"context_length_exceeded">>)
         THEN "context_too_long"
         ELSE "unknown"
    ELSE IF error.isError /\ error.name = "TimeoutError" THEN "timeout" ELSE "unknown"

\* the catch block: the ClaudeAPIError thrown for what was caught
ClaudeCatch(error, failedTo) ==
    IF error.instanceOf = "APIError"
    THEN ClaudeAPIError(<<"Claude API error:">> \o error.message, "anthropic_api_error",
                        error.status, ClaudeErrorType(error))
    ELSE ClaudeAPIError(<<failedTo>> \o MessageOf(error, "Unknown error"), NULL, NULL,
                        ClaudeErrorType(error))

\* what one call of anthropic.messages.create does
ApiOutcomes ==
    [ok : {TRUE}, contentType : {"text"}, text : ParsedTexts,
     usage : {[input_tokens |-> 100, output_tokens |-> 50]}]
    \cup [ok : {TRUE}, contentType : {"tool_use"}, text : {[json |-> "invalid", text |-> ""]},
          usage : {[input_tokens |-> 100, output_tokens |-> 50]}]
    \cup {[ok |-> FALSE, error |-> e] : e \in RawFailures}

UnexpectedFormat ==
    [instanceOf |-> "Error", isError |-> TRUE, name |-> "ClaudeAPIError", status |-> NULL,
     message |-> <<"Unexpected response format from Claude API">>]

\* generateSummary of lib/claude (processingTime and cost are left out)
claudeGenerateSummary(api) ==
    IF ~api.ok
    THEN [ok |-> FALSE, error |-> ClaudeCatch(api.error, "Failed to generate summary:")]
    ELSE IF api.contentType /= "text"
    THEN [ok |-> FALSE, error |-> ClaudeCatch(UnexpectedFormat, "Failed to generate summary:")]
    ELSE [ok |-> TRUE, result |-> parsesSummaryResponse(api.text),
          tokensUsed |-> api.usage.input_tokens + api.usage.output_tokens]

\* extractTopics of lib/claude (processingTime and cost are left out)
claudeExtractTopics(api) ==
    IF ~api.ok
    THEN [ok |-> FALSE, error |-> ClaudeCatch(api.error, "Failed to extract topics:")]
    ELSE IF api.contentType /= "text"
    THEN [ok |-> FALSE, error |-> ClaudeCatch(UnexpectedFormat, "Failed to extract topics:")]
    ELSE [ok |-> TRUE, result |-> parseTopicsResponse(api.text),
          tokensUsed |-> api.usage.input_tokens + api.usage.output_tokens]

ClaudeCalls == [fn : {"claudeGenerateSummary", "claudeExtractTopics"}, api : ApiOutcomes]

AI_claudeGenerateSummary ==
    /\ ai.pc = "idle" /\ ai.in.fn = "claudeGenerateSummary"
    /\ ai' = [ai EXCEPT !.pc = "settled", !.out = claudeGenerateSummary(ai.in.api)]

AI_claudeExtractTopics ==
    /\ ai.pc = "idle" /\ ai.in.fn = "claudeExtractTopics"
    /\ ai' = [ai EXCEPT !.pc = "settled", !.out = claudeExtractTopics(ai.in.api)]

\* processVideo stores the confidence of the summary in generation_metadata
AI_storeSummary ==
    /\ ai.pc = "settled" /\ ai.in.fn = "claudeGenerateSummary" /\ ai.out.ok
    /\ ai' = [ai EXCEPT
           !.pc = "stored",
           !.surfaced = [generation_metadata |->
                            [confidence |-> ai.out.result.confidence,
                             tokensUsed |-> ai.out.tokensUsed]]]

ClaudeInit ==
    /\ content_sources = <<>>
    /\ content_items = <<>>
    /\ content_transcripts = <<>>
    /\ generated_summaries = <<>>
    /\ stepWrites = <<>>
    /\ req = [s \in Slots |-> IdleRequest]
    /\ log = [s \in Slots |-> <<>>]
    /\ started = 0
    /\ retryCalls = EmptyBag
    /\ tIn = NULL
    /\ tOut = NotCalled
    /\ ai \in {[pc |-> "idle", in |-> i, out |-> NotCalled, surfaced |-> NotCalled] :
                  i \in ClaudeCalls}
    /\ batchAI = NotCalled
    /\ batch = NotCalled
    /\ rpc = NotCalled

ClaudeNext ==
    /\ \/ AI_claudeGenerateSummary
       \/ AI_claudeExtractTopics
       \/ AI_storeSummary
    /\ UNCHANGED <<pipeVars, transcriptVars, batchAI, batch, rpc>>

SpecClaude == ClaudeInit /\ [][ClaudeNext]_vars

----------------------------------------------------------------------------
(* Specifications *)

\* the store once one processVideo of v1 has failed in the analysis
FailedItem ==
    [NewContentItem(1, "v1") EXCEPT
        !.current_step = "failed",
        !.error_details = ErrorDetails(
            <<"All AI providers failed. Last error:", "Grok provider not yet implemented">>,
            "ai_processing", "v1")]

FailedItemWrites ==
    [i \in 1..5 |-> [by |-> "orchestrator",
                     step |-> <<"pending", "fetching_metadata", "extracting_transcript",
                                "ai_processing", "failed">>[i]]]

\* an arriving request is given the first handler that is free
LowestFree(s) == \A t \in 1..(s - 1) : req[t].pc \notin {"idle", "done"}

\* a request arrives
Start(s) ==
    \/ \E v \in Videos : StartVideo(s, v)
    \/ StartChannel(s)
    \/ \E id \in 0..(Len(content_items) + 1) : StartRetry(s, id)

\* processVideo resumes at its next await
VideoStep(s) ==
    \/ V_insertSource(s)
    \/ V_insertItem(s)
    \/ V_stepFetchingMetadata(s)
    \/ V_stepExtractingTranscript(s)
    \/ V_getTranscript(s)
    \/ V_insertTranscript(s)
    \/ V_stepAiProcessing(s)
    \/ V_analyzeContent(s)
    \/ V_insertSummary(s)
    \/ V_stepSavingData(s)
    \/ V_stepCompleted(s)
    \/ V_catch(s)

\* processChannel resumes at its next await
ChannelStep(s) ==
    \/ C_getChannelDetails(s)
    \/ C_selectSource(s)
    \/ C_insertSource(s)
    \/ C_getChannelVideos(s)
    \/ CV_selectExisting(s)
    \/ CV_insertItem(s)
    \/ CV_stepExtractingTranscript(s)
    \/ CV_getTranscript(s)
    \/ CV_insertTranscript(s)
    \/ CV_stepAiProcessing(s)
    \/ CV_analyzeContent(s)
    \/ CV_insertSummary(s)
    \/ CV_stepSavingData(s)
    \/ CV_stepCompleted(s)
    \/ CV_catch(s)

\* the retry endpoint resumes at its next await, up to the lookup of the
\* processVideo it triggers
RetryStep(s) ==
    \/ R_select(s)
    \/ R_increment(s)
    \/ R_reset(s)
    \/ V_getVideoDetails(s)
    \/ V_selectExisting(s)

Init ==
    /\ content_sources = <<>>
    /\ content_items = <<>>
    /\ content_transcripts = <<>>
    /\ generated_summaries = <<>>
    /\ stepWrites = <<>>
    /\ req = [s \in Slots |-> IdleRequest]
    /\ log = [s \in Slots |-> <<>>]
    /\ started = 0
    /\ retryCalls = EmptyBag
    /\ tIn = NULL
    /\ tOut = NotCalled
    /\ ai = NoAICall
    /\ batchAI = NotCalled
    /\ batch = NotCalled
    /\ rpc = NotCalled

\* requests served concurrently: the handlers interleave at their awaits
Next ==
    /\ \E s \in Slots :
          \/ started < MaxRequests /\ LowestFree(s) /\ Start(s)
          \/ VideoStep(s)
          \/ ChannelStep(s)
          \/ RetryStep(s)
    /\ UNCHANGED <<transcriptVars, aiVars, batchVars, rpc>>

Spec == Init /\ [][Next]_vars

\* requests served one after the other
SeqNext ==
    /\ \/ started < MaxSeqRequests /\ Start(1)
       \/ VideoStep(1)
       \/ ChannelStep(1)
       \/ RetryStep(1)
    /\ UNCHANGED <<transcriptVars, aiVars, batchVars, rpc>>

SpecSeq == Init /\ [][SeqNext]_vars

\* retry calls on an item whose run has failed
RetryInit ==
    /\ content_sources = <<[user_id |-> userId, source_type |-> "youtube_video",
                            source_url |-> <<"https://www.youtube.com/watch?v=", "v1">>]>>
    /\ content_items = <<FailedItem>>
    /\ content_transcripts = <<[content_item_id |-> 1, transcript_type |-> "auto"]>>
    /\ generated_summaries = <<>>
    /\ stepWrites = <<FailedItemWrites>>
    /\ req = [s \in Slots |-> IdleRequest]
    /\ log = [s \in Slots |-> <<>>]
    /\ started = 0
    /\ retryCalls = EmptyBag
    /\ tIn = NULL
    /\ tOut = NotCalled
    /\ ai = NoAICall
    /\ batchAI = NotCalled
    /\ batch = NotCalled
    /\ rpc = NotCalled

\* concurrent retry calls
RetryNext ==
    /\ \E s \in Slots :
          \/ started < MaxRetryCalls /\ LowestFree(s) /\ \E id \in 0..(Len(content_items) + 1) : StartRetry(s, id)
          \/ RetryStep(s)
    /\ UNCHANGED <<transcriptVars, aiVars, batchVars, rpc>>

SpecRetry == RetryInit /\ [][RetryNext]_vars

\* retry calls made one after the other
RetrySeqNext ==
    /\ \/ started < MaxRetryCalls /\ \E id \in 0..(Len(content_items) + 1) : StartRetry(1, id)
       \/ RetryStep(1)
    /\ UNCHANGED <<transcriptVars, aiVars, batchVars, rpc>>

SpecRetrySeq == RetryInit /\ [][RetrySeqNext]_vars

\* getTranscript alone, over the outcomes of the caption service
TranscriptInit ==
    /\ content_sources = <<>>
    /\ content_items = <<>>
    /\ content_transcripts = <<>>
    /\ generated_summaries = <<>>
    /\ stepWrites = <<>>
    /\ req = [s \in Slots |-> IdleRequest]
    /\ log = [s \in Slots |-> <<>>]
    /\ started = 0
    /\ retryCalls = EmptyBag
    /\ tIn \in [videoId : Videos, captions : CaptionOutcomes]
    /\ tOut = NotCalled
    /\ ai = NoAICall
    /\ batchAI = NotCalled
    /\ batch = NotCalled
    /\ rpc = NotCalled

TranscriptNext == GetTranscriptCall /\ UNCHANGED <<pipeVars, aiVars, batchVars, rpc>>

SpecTranscript == TranscriptInit /\ [][TranscriptNext]_vars

----------------------------------------------------------------------------
(* updateProcessingStep called with any step, details and error info *)

StepDetailValues == {{}, {"videoId"}, {"analysisComplete"}}

ErrorInfoValues == {EmptyJson, ErrorDetails(<<"no", "transcript">>, "ai_processing", "v1")}

\* updateProcessingStep of route.ts sends the rpc with its arguments
Step_rpc ==
    /\ rpc = NotCalled
    /\ started < MaxStepCalls
    /\ \E step \in Steps, details \in StepDetailValues, errorInfo \in ErrorInfoValues :
          rpc' = [content_item_id |-> 1, new_step |-> step, details |-> details,
                  error_info |-> errorInfo]
    /\ started' = started + 1
    /\ UNCHANGED <<storeVars, req, log, retryCalls, stepWrites>>

\* the database runs update_processing_step
Step_update ==
    /\ rpc /= NotCalled
    /\ updateProcessingStep(1, rpc.content_item_id, rpc.new_step, rpc.details, rpc.error_info)
    /\ rpc' = NotCalled
    /\ UNCHANGED <<content_sources, content_transcripts, generated_summaries, req, started,
                   retryCalls>>

\* a new item, or one that has failed and been retried
StepInit ==
    /\ content_sources = <<[user_id |-> userId, source_type |-> "youtube_video",
                            source_url |-> <<"https://www.youtube.com/watch?v=", "v1">>]>>
    /\ content_items \in {<<NewContentItem(1, "v1")>>, <<FailedItem>>,
                          <<increment_retry_count(<<FailedItem>>, 1, max_retries)[1]>>}
    /\ content_transcripts = <<>>
    /\ generated_summaries = <<>>
    /\ stepWrites = <<<<>>>>
    /\ req = [s \in Slots |-> IdleRequest]
    /\ log = [s \in Slots |-> <<>>]
    /\ started = 0
    /\ retryCalls = EmptyBag
    /\ tIn = NULL
    /\ tOut = NotCalled
    /\ ai = NoAICall
    /\ batchAI = NotCalled
    /\ batch = NotCalled
    /\ rpc = NotCalled

StepNext ==
    /\ \/ Step_rpc
       \/ Step_update
    /\ UNCHANGED <<transcriptVars, aiVars, batchVars>>

SpecStep == StepInit /\ [][StepNext]_vars

----------------------------------------------------------------------------
(* POST of the process endpoint with a list of URLs *)

\* urls.length > 50
UrlLimit == 50

\* a URL, by the parts validateYouTubeURL looks at: whether new URL() parses
\* it, its hostname, and the ids the patterns of extractVideoId,
\* extractChannelId and the list= pattern find in it
Url(parses, hostname, video, channel, list) ==
    [parses |-> parses, hostname |-> hostname, video |-> video, channel |-> channel,
     list |-> list]

MalformedUrl == Url(FALSE, <<>>, NULL, NULL, NULL)

SubmittedUrls ==
    {Url(TRUE, <<"www", "youtube", "com">>, "v1", NULL, NULL),
     Url(TRUE, <<"youtu", "be">>, "v2", NULL, NULL),
     Url(TRUE, <<"www", "youtube", "com">>, NULL, "c1", NULL),
     Url(TRUE, <<"www", "youtube", "com">>, NULL, NULL, "PL1"),
     Url(TRUE, <<"www", "youtube", "com">>, NULL, NULL, NULL),
     Url(TRUE, <<"vimeo", "com">>, "v1", NULL, NULL),
     MalformedUrl}

validateYouTubeURL(url) ==
    IF ~url.parses
    THEN [isValid |-> FALSE, error |-> "Invalid URL format"]
    ELSE IF ~includes(url.hostname, <<"youtube", "com">>)
            /\ ~includes(url.hostname, <<"youtu", "be">>)
    THEN [isValid |-> FALSE, error |-> "URL must be from YouTube"]
    ELSE IF url.video /= NULL
    THEN [isValid |-> TRUE, type |-> "video", id |-> url.video]
    ELSE IF url.channel /= NULL
    THEN [isValid |-> TRUE, type |-> "channel", id |-> url.channel]
    ELSE IF url.list /= NULL
    THEN [isValid |-> TRUE, type |-> "playlist", id |-> url.list]
    ELSE [isValid |-> FALSE, error |-> "URL format not recognized"]

\* the body of a request: urls may be missing, or not an array
Body(given, isArray, items) == [given |-> given, isArray |-> isArray, items |-> items]

\* lists of every length up to one more than the limit, and every short list
Bodies ==
    {Body(FALSE, FALSE, <<>>), Body(TRUE, FALSE, <<>>)}
    \cup {Body(TRUE, TRUE, [k \in 1..n |-> MalformedUrl]) : n \in 0..(UrlLimit + 1)}
    \cup {Body(TRUE, TRUE, l) : l \in SeqsUpTo(SubmittedUrls, MaxUrls)}

\* !urls || !Array.isArray(urls) || urls.length === 0
UrlsMissing(body) == ~body.given \/ ~body.isArray \/ Len(body.items) = 0

\* a limit that also refuses a list of exactly 50 URLs
TooManyUrlsAtLimit(body) == Len(body.items) >= UrlLimit

\* urls.length > 50
TooManyUrls(body) == Len(body.items) > UrlLimit

IdleBatch ==
    [pc |-> "idle", body |-> Body(FALSE, FALSE, <<>>), k |-> 0, processed |-> <<>>,
     errors |-> <<>>, totalEstimatedCost |-> 0, status |-> 0]

\* an outer catch that ends the request at the first throw
AbortOnThrow(b, error) == [b EXCEPT !.pc = "done", !.status = 500]

\* a catch that only logs the throw and goes on to the next URL
CatchAndSkip(b, error) == [b EXCEPT !.k = @ + 1, !.pc = "loop"]

\* the catch inside the for loop: the throw is pushed to errors and the loop goes on
CatchAndContinue(b, error) ==
    [b EXCEPT !.errors = Append(@, [index |-> b.k, error |-> error]),
              !.k = @ + 1, !.pc = "loop"]

\* the request arrives: the basic validation
B_receive ==
    /\ batch.pc = "idle"
    /\ \E body \in Bodies :
          batch' = IF UrlsMissing(body) \/ TooManyUrls(body)
                   THEN [batch EXCEPT !.pc = "done", !.body = body, !.status = 400]
                   ELSE [batch EXCEPT !.pc = "loop", !.body = body, !.k = 1]
    /\ UNCHANGED pipeVars

\* one turn of the for loop up to the call of processVideo or processChannel
B_url ==
    /\ batch.pc = "loop"
    /\ batch.k <= Len(batch.body.items)
    /\ LET validation == validateYouTubeURL(batch.body.items[batch.k])
       IN IF ~validation.isValid
          THEN /\ batch' = [batch EXCEPT
                      !.errors = Append(@, [index |-> batch.k, error |-> <<validation.error>>]),
                      !.k = @ + 1]
               /\ UNCHANGED pipeVars
          ELSE IF validation.type = "video"
          THEN /\ StartVideo(1, validation.id)
               /\ batch' = [batch EXCEPT !.pc = "processing"]
          ELSE IF validation.type = "channel"
          THEN /\ StartChannel(1)
               /\ batch' = [batch EXCEPT !.pc = "processing"]
          ELSE /\ batch' = [batch EXCEPT
                      !.errors = Append(@, [index |-> batch.k,
                                            error |-> <<"Playlist processing not yet implemented">>]),
                      !.k = @ + 1]
               /\ UNCHANGED pipeVars

\* processVideo or processChannel runs
B_process ==
    /\ batch.pc = "processing"
    /\ \/ V_getVideoDetails(1)
       \/ V_selectExisting(1)
       \/ VideoStep(1)
       \/ ChannelStep(1)
    /\ UNCHANGED batch

\* processVideo or processChannel has returned or thrown
B_collect ==
    /\ batch.pc = "processing"
    /\ req[1].pc = "done"
    /\ batch' = IF req[1].response.status = "error"
                THEN CatchAndContinue(batch, req[1].response.error)
                ELSE [batch EXCEPT
                         !.processed = Append(@, [index |-> batch.k,
                                                  status |-> req[1].response.status,
                                                  estimatedCost |-> req[1].response.estimatedCost,
                                                  listed |-> req[1].listed,
                                                  videos |-> req[1].results]),
                         !.totalEstimatedCost = @ + req[1].response.estimatedCost,
                         !.k = @ + 1, !.pc = "loop"]
    /\ req' = [req EXCEPT ![1].pc = "idle"]
    /\ UNCHANGED <<storeVars, log, started, retryCalls, stepWrites>>

\* after the loop: the response with processed and errors
B_respond ==
    /\ batch.pc = "loop"
    /\ batch.k > Len(batch.body.items)
    /\ batch' = [batch EXCEPT !.pc = "done", !.status = 200]
    /\ UNCHANGED pipeVars

BatchInit ==
    /\ content_sources = <<>>
    /\ content_items = <<>>
    /\ content_transcripts = <<>>
    /\ generated_summaries = <<>>
    /\ stepWrites = <<>>
    /\ req = [s \in Slots |-> IdleRequest]
    /\ log = [s \in Slots |-> <<>>]
    /\ started = 0
    /\ retryCalls = EmptyBag
    /\ tIn = NULL
    /\ tOut = NotCalled
    /\ ai = NoAICall
    /\ batchAI = NotCalled
    /\ batch = IdleBatch
    /\ rpc = NotCalled

BatchNext ==
    /\ \/ B_receive
       \/ B_url
       \/ B_process
       \/ B_collect
       \/ B_respond
    /\ UNCHANGED <<transcriptVars, aiVars, rpc>>

SpecBatch == BatchInit /\ [][BatchNext]_vars

----------------------------------------------------------------------------
(* Reading the history of a request *)

\* the position of the last run marker in a log (0: no run has started)
RunStart(l) ==
    IF \E i \in 1..Len(l) : l[i].type = "run"
    THEN CHOOSE i \in 1..Len(l) :
             l[i].type = "run" /\ \A j \in (i + 1)..Len(l) : l[j].type /= "run"
    ELSE 0

\* the events of the current run of processVideo or processChannelVideo
RunEvents(l) == IF RunStart(l) = 0 THEN <<>> ELSE SubSeq(l, RunStart(l) + 1, Len(l))

\* the step values a sequence of events records, in order
RECURSIVE StepsOf(_)
StepsOf(events) ==
    IF events = <<>> THEN <<>>
    ELSE IF Head(events).type = "step" THEN <<Head(events).name>> \o StepsOf(Tail(events))
    ELSE StepsOf(Tail(events))

Has(events, type, name) == \E i \in 1..Len(events) : events[i] = Ev(type, name)

\* every (type, name) event of the sequence comes after a (type0, name0) event
Precedes(events, type0, name0, type, name) ==
    \A i \in 1..Len(events) :
        events[i] = Ev(type, name) => \E j \in 1..(i - 1) : events[j] = Ev(type0, name0)

InRun(r) == r.pc \notin {"idle", "done", "R_select", "R_increment", "R_reset",
                         "C_getChannelDetails", "C_selectSource", "C_insertSource",
                         "C_getChannelVideos"}

\* a step of handler s that ends its current run: the request is answered, or
\* processChannel has pushed the result of one more video
RunEnds(s) ==
    /\ InRun(req[s])
    /\ \/ req'[s].pc = "done"
       \/ Len(req'[s].results) > Len(req[s].results)

\* what the run that has just ended returned
RunResult(r) ==
    IF r.kind = "channel" /\ r.results /= <<>>
    THEN [status |-> r.results[Len(r.results)].status,
          estimatedCost |-> r.results[Len(r.results)].estimatedCost]
    ELSE IF r.kind = "retry"
    THEN [status |-> r.response.inner, estimatedCost |-> r.response.estimatedCost]
    ELSE [status |-> r.response.status, estimatedCost |-> r.response.estimatedCost]

Flow == <<"pending", "fetching_metadata", "extracting_transcript", "ai_processing",
          "saving_data", "completed">>

IsPrefix(a, b) == Len(a) <= Len(b) /\ \A i \in 1..Len(a) : a[i] = b[i]

----------------------------------------------------------------------------
(* Claims *)

\* C1: in non-overlapping submissions, once a unit is stored for the identity
\* a submission looks up, the run of that submission (from the point where the
\* video's metadata has been fetched) creates no content item, transcript or
\* summary, records no step, calls neither getTranscript nor analyzeContent,
\* and returns already_exists with estimatedCost 0.
C1_RepeatSubmissionShortCircuits ==
    [][\A s \in Slots :
          (InRun(req[s]) /\ req[s].preexisting /\ req[s].pc /= "V_getVideoDetails") =>
              /\ Len(content_items') = Len(content_items)
              /\ content_transcripts' = content_transcripts
              /\ generated_summaries' = generated_summaries
              /\ stepWrites' = stepWrites
              /\ ~Has(RunEvents(log'[s]), "call", "getTranscript")
              /\ ~Has(RunEvents(log'[s]), "call", "analyzeContent")
              /\ (RunEnds(s) =>
                     /\ RunResult(req'[s]).status = "already_exists"
                     /\ RunResult(req'[s]).estimatedCost = 0)]_vars

\* C2: a run that has created its content item never ends with the item in a
\* non-terminal step, and an item it leaves failed has error_details.
C2_RunEndsTerminal ==
    [][\A s \in Slots :
          (RunEnds(s) /\ req[s].itemId /= 0 /\ Has(RunEvents(log[s]), "insert", "content_items")) =>
              /\ content_items'[req[s].itemId].current_step \in {"completed", "failed"}
              /\ (content_items'[req[s].itemId].current_step = "failed" =>
                      content_items'[req[s].itemId].error_details /= EmptyJson)]_vars

\* C3: with retry calls made one after the other on an item that starts with
\* retry_count 0 and never completes, can_retry is true after fewer than 3
\* calls and false after 3, and the 4th and every later call is rejected with a
\* maximum-retries error.
C3_ThreeRetriesThenRejected ==
    LET n == CopiesIn(1, retryCalls)
        r == req[1]
    IN /\ (r.pc \in {"idle", "done"}) => (content_items[1].can_retry <=> n < 3)
       /\ (r.pc = "done" /\ r.kind = "retry" /\ r.retryItem = 1 /\ n >= 4) =>
              r.response.status \in {"exceeded_maximum_retry_attempts",
                                     "maximum_retry_attempts_reached"}

C3_FourthRetryRejected ==
    /\ req[1].pc = "done" /\ req[1].kind = "retry" /\ req[1].retryItem = 1
    /\ CopiesIn(1, retryCalls) = 4
    /\ content_items[1].retry_count = 3
    /\ ~content_items[1].can_retry
    /\ req[1].response.status = "exceeded_maximum_retry_attempts"

\* C4: under concurrent retry calls retry_count never exceeds max_retries (the
\* endpoint accepts every call whose increment it has made, so this is also the
\* number of accepted calls).
C4_RetryCountBounded ==
    \A i \in 1..Len(content_items) : content_items[i].retry_count <= max_retries

\* C5: an accepted retry has run the pipeline again for its item: when the
\* retry call returns and the process endpoint it called reported no error,
\* getTranscript has been called and the item has left pending for completed
\* or failed.
C5_RetryRerunsPipeline ==
    \A s \in Slots :
        (req[s].pc = "done" /\ req[s].kind = "retry"
            /\ req[s].response.status = "retry_initiated"
            /\ req[s].response.inner /= "error") =>
            /\ Has(log[s], "call", "getTranscript")
            /\ content_items[req[s].retryItem].current_step \in {"completed", "failed"}

\* C6: current_step is what the last write recorded; after a write of completed
\* or failed the next write of the item's step is made by the retry endpoint;
\* and a retry call that was rejected has written no step.
C6_TerminalThenOnlyRetry ==
    /\ \A i \in 1..Len(content_items) :
          /\ content_items[i].current_step = stepWrites[i][Len(stepWrites[i])].step
          /\ \A k \in 1..(Len(stepWrites[i]) - 1) :
                 stepWrites[i][k].step \in {"completed", "failed"} =>
                     stepWrites[i][k + 1].by = "retry"
    /\ \A s \in Slots :
          (req[s].pc = "done" /\ req[s].kind = "retry"
              /\ req[s].response.status /= "retry_initiated") =>
              StepsOf(log[s]) = <<>>

C6_RetryAfterTerminal ==
    \E i \in 1..Len(content_items) :
        \E k \in 1..(Len(stepWrites[i]) - 1) :
            /\ stepWrites[i][k].step \in {"completed", "failed"}
            /\ stepWrites[i][k].by = "orchestrator"
            /\ stepWrites[i][k + 1].by = "retry"
            /\ content_items[i].current_step = "pending"

\* C7: the steps a run records are a prefix of pending, fetching_metadata,
\* extracting_transcript, ai_processing, saving_data, completed, or such a
\* prefix that stops before completed, followed by failed.
C7_StepsInOrder ==
    \A s \in Slots :
        LET steps == StepsOf(RunEvents(log[s]))
        IN \/ IsPrefix(steps, Flow)
           \/ /\ steps /= <<>>
              /\ steps[Len(steps)] = "failed"
              /\ Len(steps) >= 2
              /\ IsPrefix(SubSeq(steps, 1, Len(steps) - 1), SubSeq(Flow, 1, 5))

\* C8: in a run, fetching_metadata is recorded before getVideoDetails is
\* called, extracting_transcript before getTranscript, ai_processing before
\* analyzeContent, and saving_data before the summary is inserted.
C8_StepRecordedBeforeWork ==
    \A s \in Slots :
        LET run == RunEvents(log[s])
        IN /\ Precedes(run, "step", "fetching_metadata", "call", "getVideoDetails")
           /\ Precedes(run, "step", "extracting_transcript", "call", "getTranscript")
           /\ Precedes(run, "step", "ai_processing", "call", "analyzeContent")
           /\ Precedes(run, "step", "saving_data", "insert", "generated_summaries")

\* C9: concurrent submissions of one video by one owner never store two content
\* items for it.
C9_OneItemPerVideo ==
    \A i, j \in 1..Len(content_items) :
        (/\ content_items[i].user_id = content_items[j].user_id
         /\ content_items[i].external_id = content_items[j].external_id
         /\ content_sources[content_items[i].source_id].source_type = "youtube_video"
         /\ content_sources[content_items[j].source_id].source_type = "youtube_video")
        => i = j

\* C10: when the caption service fails and Whisper fails too, getTranscript
\* throws one error, ALL_METHODS_FAILED, whose errorType is the classification
\* of the caption failure and whose message holds both failures' messages.
C10_AggregateKeepsPrimaryType ==
    (tOut /= NotCalled /\ ~tIn.captions.ok) =>
        /\ ~tOut.ok
        /\ tOut.error.code = "ALL_METHODS_FAILED"
        /\ tOut.error.errorType = ClassifyYouTubeError(tIn.captions)
        /\ includes(tOut.error.message,
                    extractYouTubeTranscript(tIn.videoId, tIn.captions).error.message)
        /\ includes(tOut.error.message, WhisperMessage)
        /\ tOut.calls = <<"youtube", "whisper">>

C10_NoCaptionsAggregate ==
    /\ tOut /= NotCalled
    /\ tIn.captions = [ok |-> FALSE, isError |-> TRUE, message |-> <<"no", "transcript">>,
                       items |-> <<>>]
    /\ ~tOut.ok
    /\ tOut.error.errorType = "no_captions"

\* the fields of a provider's result that a language-model call returns
ResultOf(r) == [text |-> r.text, tokensUsed |-> r.tokensUsed, cost |-> r.cost]

\* C11: in generateSummary and extractTopics, when the preferred provider fails
\* and another provider of the fallback order succeeds, the call succeeds and
\* its text, tokensUsed and cost are those of the provider that succeeded.
C11_FallbackResultReturned ==
    LET p == DefaultProvider(ai.in.preferredProvider)
        c == ai.in.claude[1]
    IN (/\ ai.pc = "settled"
        /\ ai.in.fn \in {"generateSummary", "extractTopics"}
        /\ ~CallProvider(p, c).ok
        /\ \E q \in AIProviders \ {p} : CallProvider(q, c).ok)
       => /\ ai.out.ok
          /\ ai.out.provider /= p
          /\ CallProvider(ai.out.provider, c).ok
          /\ ResultOf(ai.out) = ResultOf(CallProvider(ai.out.provider, c))

C11_GrokPreferredClaudeAnswers ==
    /\ ai.pc = "settled"
    /\ ai.in.fn = "extractTopics"
    /\ ai.in.preferredProvider = "grok"
    /\ ai.in.claude[1].ok
    /\ ai.out.ok
    /\ ai.out.calls = <<"grok", "claude">>
    /\ ai.out.cost = ai.in.claude[1].cost /\ ai.out.cost = 3

\* C12: when every provider fails, generateSummary and extractTopics throw one
\* AIProcessingError that names the last provider of the fallback order, which
\* is the last one attempted, and whose message holds that provider's message.
C12_LastProviderReported ==
    LET p == DefaultProvider(ai.in.preferredProvider)
        c == ai.in.claude[1]
        last == IF p = "claude" THEN "grok" ELSE "claude"
    IN (/\ ai.pc = "settled"
        /\ ai.in.fn \in {"generateSummary", "extractTopics"}
        /\ \A q \in AIProviders : ~CallProvider(q, c).ok)
       => /\ ~ai.out.ok
          /\ ai.out.error.name = "AIProcessingError"
          /\ ai.out.calls = <<p, last>>
          /\ ai.out.error.provider = last
          /\ ai.out.error.originalError = CallProvider(last, c).error
          /\ includes(ai.out.error.message, CallProvider(last, c).error.message)

C12_ClaudeThenGrokFail ==
    /\ ai.pc = "settled"
    /\ ai.in.fn = "generateSummary"
    /\ ai.in.preferredProvider = "claude"
    /\ ~ai.in.claude[1].ok /\ ai.in.claude[1].error.errorType = "rate_limit"
    /\ ~ai.out.ok
    /\ ai.out.error.provider = "grok"
    /\ includes(ai.out.error.message, GrokMessage)

\* C18: the retry endpoint accepts a call, and overwrites the item's step, only
\* when the item's current_step is failed.
C18_RetryOnlyOnFailed ==
    [][\A s \in Slots :
          (req[s].pc = "R_increment" /\ req'[s].pc = "R_reset") =>
              content_items[req[s].retryItem].current_step = "failed"]_vars

\* C19: the error_details of an item recorded as failed hold the kind of the
\* classified error and its retryable flag, and a first failure leaves
\* retry_count 0 and can_retry true.
C19_ErrorDetailsClassified ==
    \A i \in 1..Len(content_items) :
        content_items[i].current_step = "failed" =>
            /\ "kind" \in DOMAIN content_items[i].error_details
            /\ "canRetry" \in DOMAIN content_items[i].error_details
            /\ (~\E k \in 1..Len(stepWrites[i]) : stepWrites[i][k].by = "retry") =>
                   (content_items[i].retry_count = 0 /\ content_items[i].can_retry)

\* C20: when analyzeContent fails on a Claude failure that ClaudeAPIError.canRetry
\* marks retryable (rate_limit, quota_exceeded, timeout), the errorDetails POST
\* reports for the item carry canRetry = true.
C20_RetryableFlagSurfaced ==
    LET cause == IF ~ai.in.claude[1].ok THEN ai.in.claude[1].error
                 ELSE ai.in.claude[2].error
    IN (ai.pc = "reported" /\ ClaudeCanRetry(cause)) =>
           ("canRetry" \in DOMAIN ai.surfaced /\ ai.surfaced.canRetry)

\* C14: when a call of batchAnalyzeContent has ended and its invocations have
\* settled, every item has been analysed and the result of every item whose
\* analysis succeeded has been returned to the caller.
C14_FailureDoesNotAbortBatch ==
    (/\ batchAI.pc \in {"returned", "thrown"}
     /\ \A j \in 1..batchAI.n : batchAI.status[j] /= "inFlight")
    => \A j \in 1..batchAI.n :
           /\ batchAI.status[j] /= "notStarted"
           /\ batchAI.status[j] = "ok" =>
                  (batchAI.pc = "returned" /\ j \in Range(batchAI.results))

\* C15: in batchAnalyzeContent every invocation of a chunk has settled before
\* an invocation of the next chunk starts, and at most maxConcurrent
\* invocations are in flight.
C15_ChunksDoNotOverlap ==
    batchAI.pc /= "none" =>
        /\ \A k \in 1..(Len(batchAI.chunks) - 1) :
               \A j \in Range(batchAI.chunks[k]) : batchAI.status[j] \in {"ok", "failed"}
        /\ Cardinality({j \in 1..batchAI.n : batchAI.status[j] = "inFlight"})
               <= MaxConcurrentOf(batchAI.options)

C15_SecondChunkInFlight ==
    /\ batchAI.pc = "awaitAll"
    /\ Len(batchAI.chunks) = 2
    /\ \A j \in Range(batchAI.chunks[1]) : batchAI.status[j] = "ok"
    /\ Cardinality({j \in 1..batchAI.n : batchAI.status[j] = "inFlight"}) = 2
    /\ \E j \in Range(batchAI.chunks[2]) : batchAI.status[j] = "failed"

\* C16: for n contents and maxConcurrent m >= 1 (3 when the option is not
\* given), chunk k holds the contents (k-1)*m+1 .. min(n, k*m) in input order;
\* a call that returns has formed ceil(n/m) chunks and returns the results in
\* input order.
C16_ChunksPartitionInput ==
    LET n == batchAI.n
        m == IF "maxConcurrent" \in DOMAIN batchAI.options
             THEN batchAI.options.maxConcurrent ELSE 3
    IN (batchAI.pc /= "none" /\ m >= 1) =>
           /\ \A k \in 1..Len(batchAI.chunks) :
                  batchAI.chunks[k] =
                      [x \in 1..(Min(n, k * m) - (k - 1) * m) |-> (k - 1) * m + x]
           /\ batchAI.pc = "returned" =>
                  /\ Len(batchAI.chunks) = (n + m - 1) \div m
                  /\ batchAI.results = [x \in 1..n |-> x]

C16_SevenItemsThreeChunks ==
    /\ batchAI.pc = "returned"
    /\ batchAI.n = 7
    /\ batchAI.options = EmptyJson
    /\ batchAI.chunks = <<<<1, 2, 3>>, <<4, 5, 6>>, <<7>>>>
    /\ batchAI.results = <<1, 2, 3, 4, 5, 6, 7>>

\* the entries POST has pushed for the URL at position k
EntriesFor(k) ==
    Cardinality({x \in 1..Len(batch.processed) : batch.processed[x].index = k})
    + Cardinality({x \in 1..Len(batch.errors) : batch.errors[x].index = k})

\* C13: a POST with an accepted list of URLs always goes on to its response:
\* whatever URLs are invalid or fail, every URL of the list gets its entry in
\* processed or errors, every video a channel lists gets its result in the
\* channel's entry, and the response is the 200 one.
C13_FailuresDoNotAbortSiblings ==
    /\ batch.pc \in {"loop", "processing"} => ENABLED BatchNext
    /\ batch.pc \in {"loop", "processing"} =>
           \A k \in 1..(batch.k - 1) : EntriesFor(k) = 1
    /\ (batch.pc = "done" /\ ~UrlsMissing(batch.body) /\ ~TooManyUrls(batch.body)) =>
           /\ batch.status = 200
           /\ \A k \in 1..Len(batch.body.items) : EntriesFor(k) = 1
    /\ \A x \in 1..Len(batch.processed) :
           LET e == batch.processed[x]
           IN /\ Len(e.videos) = Len(e.listed)
              /\ \A y \in 1..Len(e.listed) : e.videos[y].videoId = e.listed[y]

C13_FailedThenProcessed ==
    /\ batch.pc = "done" /\ batch.status = 200
    /\ Len(batch.body.items) = 2
    /\ Len(batch.errors) = 1 /\ batch.errors[1].index = 1
    /\ validateYouTubeURL(batch.body.items[1]).isValid
    /\ Len(batch.processed) = 1 /\ batch.processed[1].index = 2
    /\ batch.processed[1].listed = <<"v2", "v1">>
    /\ batch.processed[1].videos[1].status = "failed"
    /\ batch.processed[1].videos[2].status = "completed"

\* C17: a request whose urls are missing, not an array, empty or more than 50
\* is answered 400 at once, with no row written and no provider called, and
\* nothing follows; every list of 1 to 50 URLs enters the loop and is never
\* answered 400.
C17_ListValidatedFirst ==
    [][/\ (batch.pc = "idle" /\ batch'.pc /= "idle") =>
              LET body == batch'.body
              IN IF ~body.given \/ ~body.isArray \/ Len(body.items) = 0
                    \/ Len(body.items) > 50
                 THEN batch'.pc = "done" /\ batch'.status = 400 /\ UNCHANGED pipeVars
                 ELSE batch'.pc = "loop" /\ batch'.status /= 400
       /\ (batch.pc = "done" /\ batch.status = 400) => UNCHANGED pipeVars
       /\ batch'.status = 400 => (batch.pc = "idle" \/ batch.status = 400)]_vars

C17_FiftyOneRejected ==
    /\ batch.pc = "done" /\ batch.status = 400
    /\ Len(batch.body.items) = 51
    /\ content_items = <<>> /\ content_sources = <<>>
    /\ log[1] = <<>>

----------------------------------------------------------------------------
(* The kinds every taxonomy marks retryable *)

RetryableKinds == {"rate_limit", "quota_exceeded", "timeout"}

\* C21: in every taxonomy a classified error is marked retryable exactly when
\* its kind is rate_limit, quota_exceeded or timeout: here for the
\* TranscriptError getTranscript throws once both methods have failed.
C21_RetryableIffTransient ==
    (tOut /= NotCalled /\ ~tOut.ok)
        => (CanRetryOf(tOut.error) <=> tOut.error.errorType \in RetryableKinds)


\* C22: for every content length, at the tier the length selects, the estimate
\* with topic extraction is strictly greater than the estimate without it.
C22_TopicsCostMore ==
    (ai.pc = "settled" /\ ai.in.fn = "estimateCost")
        => LET other == estimateCost(ai.in.contentLength, ~ai.in.includeTopics,
                                     ai.in.provider)
           IN IF ai.in.includeTopics THEN ai.out.cost > other ELSE other > ai.out.cost

\* a long content has been estimated with topic extraction
C22_LongContentWithTopics ==
    /\ ai.pc = "settled" /\ ai.in.fn = "estimateCost"
    /\ ai.in.includeTopics /\ ai.in.contentLength = 5000
    /\ ai.out.cost = estimateCost(5000, TRUE, "claude")


\* C23: when the preferred provider fails and no other provider works, the
\* error of generateSummary and extractTopics names the preferred provider and
\* holds its message; 'No AI providers available' is thrown exactly when the
\* list of providers is empty.
C23_PreferredProviderBlamed ==
    LET p == DefaultProvider(ai.in.preferredProvider)
        c == ai.in.claude[1]
    IN (/\ ai.pc = "settled"
        /\ ai.in.fn \in {"generateSummary", "extractTopics"}
        /\ \A q \in AIProviders : ~CallProvider(q, c).ok)
       => /\ ~ai.out.ok
          /\ ai.out.error.provider = p
          /\ includes(ai.out.error.message, CallProvider(p, c).error.message)
          /\ (ai.out.error.provider = "none") <=> (Providers(p) = <<>>)


\* C24: in every reachable state, concurrent retry calls included, can_retry of
\* every item equals (retry_count < 3): so for a new item, and so after every
\* increment.
C24_CanRetryTracksCount ==
    \A i \in 1..Len(content_items) :
        content_items[i].can_retry <=> (content_items[i].retry_count < 3)

\* concurrent retry calls have pushed retry_count past 3
C24_CountPastMaximum ==
    /\ content_items[1].retry_count = 4
    /\ ~content_items[1].can_retry
    /\ \E s \in Slots : req[s].kind = "retry" /\ req[s].pc = "R_reset"


\* C25: updateProcessingStep sets current_step to the step given, replaces
\* step_details by the details given, writes error_details only when the step
\* is failed, and leaves retry_count, can_retry and the rest of the row as they
\* were, whatever the step the item was at.
C25_RecordStepFrame ==
    [][(rpc /= NotCalled /\ rpc' = NotCalled) =>
          LET old == content_items[rpc.content_item_id]
              new == content_items'[rpc.content_item_id]
          IN /\ new.current_step = rpc.new_step
             /\ new.step_details = rpc.details
             /\ new.error_details = IF rpc.new_step = "failed" THEN rpc.error_info
                                    ELSE old.error_details
             /\ new.retry_count = old.retry_count
             /\ new.can_retry = old.can_retry
             /\ new = [old EXCEPT !.current_step = new.current_step,
                                  !.step_details = new.step_details,
                                  !.error_details = new.error_details]
             /\ Len(content_items') = Len(content_items)]_vars

\* a completed item has been set back to pending with other details
C25_CompletedBackToPending ==
    /\ rpc = NotCalled
    /\ Len(stepWrites[1]) = 2
    /\ stepWrites[1][1].step = "completed" /\ stepWrites[1][2].step = "pending"
    /\ content_items[1].current_step = "pending"
    /\ content_items[1].step_details = {"videoId"}
    /\ content_items[1].error_details /= EmptyJson
    /\ content_items[1].retry_count = 1


\* C26: the error_details of an item are non-empty only while its current_step
\* is failed: nobody reads an item that a retry has set to pending with the
\* error_details of the failure before.
C26_ErrorDetailsOnlyWhenFailed ==
    \A i \in 1..Len(content_items) :
        content_items[i].error_details /= EmptyJson
            => content_items[i].current_step = "failed"


TranscriptsOf(i) == {k \in 1..Len(content_transcripts) : content_transcripts[k].content_item_id = i}

SummariesOf(i) == {k \in 1..Len(generated_summaries) : generated_summaries[k].content_item_id = i}

\* C27: an item whose current_step is completed has exactly one transcript and
\* exactly one summary stored, and no item ever has more than one of either:
\* for videos and for the videos of a channel, also when an insert fails.
C27_CompletedHasOneOfEach ==
    \A i \in 1..Len(content_items) :
        /\ Cardinality(TranscriptsOf(i)) <= 1
        /\ Cardinality(SummariesOf(i)) <= 1
        /\ content_items[i].current_step = "completed"
              => Cardinality(TranscriptsOf(i)) = 1 /\ Cardinality(SummariesOf(i)) = 1


\* C28: in one call of generateSummary or extractTopics the providers are
\* attempted in the order of the list, the preferred one first and each at most
\* once; a provider is attempted only after every provider before it has
\* failed, and none is attempted after one has succeeded.
C28_ProvidersTriedInOrder ==
    LET p == DefaultProvider(ai.in.preferredProvider)
        c == ai.in.claude[1]
        calls == ai.out.calls
    IN (ai.pc = "settled" /\ ai.in.fn \in {"generateSummary", "extractTopics"})
       => /\ calls /= <<>>
          /\ calls[1] = p
          /\ IsPrefix(calls, Providers(p))
          /\ \A j, k \in 1..Len(calls) : j /= k => calls[j] /= calls[k]
          /\ \A k \in 1..(Len(calls) - 1) : ~CallProvider(calls[k], c).ok
          /\ ai.out.ok <=> CallProvider(calls[Len(calls)], c).ok
          /\ ~ai.out.ok => calls = Providers(p)

\* the default provider answered and the other one was not attempted
C28_ClaudeOnlyAttempted ==
    /\ ai.pc = "settled"
    /\ ai.in.fn = "generateSummary"
    /\ ai.in.preferredProvider = NULL
    /\ ai.in.claude[1].ok
    /\ ai.out.ok
    /\ ai.out.calls = <<"claude">>


CallsOf(calls, method) == {k \in 1..Len(calls) : calls[k] = method}

\* C29: getTranscript calls the caption service once, and Whisper once exactly
\* when the caption service failed; when the caption service succeeds the
\* result has transcriptType auto and the cleaned raw text as processedText,
\* and Whisper is not called.
C29_WhisperOnlyAfterFailure ==
    tOut /= NotCalled =>
        LET primary == extractYouTubeTranscript(tIn.videoId, tIn.captions)
        IN /\ Cardinality(CallsOf(tOut.calls, "youtube")) = 1
           /\ tOut.calls[1] = "youtube"
           /\ Cardinality(CallsOf(tOut.calls, "whisper")) = IF primary.ok THEN 0 ELSE 1
           /\ Len(tOut.calls) <= 2
           /\ primary.ok =>
                 /\ tOut.ok
                 /\ tOut.transcriptType = "auto"
                 /\ tOut.rawText = tIn.captions.items
                 /\ tOut.processedText = cleanTranscript(tIn.captions.items)

\* captions were fetched and cleaned, and Whisper was not called
C29_CaptionsCleaned ==
    /\ tOut /= NotCalled
    /\ tOut.ok
    /\ tOut.calls = <<"youtube">>
    /\ tOut.transcriptType = "auto"
    /\ tOut.processedText /= tOut.rawText
    /\ tOut.processedText /= <<>>


RetryRejections == {"id_required", "not_found", "exceeded_maximum_retry_attempts",
                    "maximum_retry_attempts_reached"}

RetryFields(item) ==
    [retry_count |-> item.retry_count, can_retry |-> item.can_retry,
     current_step |-> item.current_step, error_details |-> item.error_details]

C37_LoopAdvances ==
    [][batchAI'.i /= batchAI.i => batchAI'.i > batchAI.i]_vars


\* C31: batchAnalyzeContent waits its delay after every chunk but the last:
\* a chunk after the first starts only when the chunk before it has settled
\* and the delay after that chunk has elapsed, and a call that returns has
\* waited no delay after its last chunk.
C31_DelayBetweenChunksOnly ==
    LET started_ == Len(batchAI.chunks)
        settled(k) == \A j \in Range(batchAI.chunks[k]) : batchAI.status[j] = "ok"
    IN batchAI.pc /= "none" =>
           /\ batchAI.pc = "awaitAll" =>
                  /\ batchAI.delays = started_ - 1
                  /\ \A k \in 1..(started_ - 1) : settled(k)
           /\ batchAI.pc = "delay" =>
                  /\ batchAI.delays = started_ - 1
                  /\ settled(started_)
                  /\ Len(batchAI.results) < batchAI.n
           /\ batchAI.pc = "returned" =>
                  batchAI.delays = IF started_ = 0 THEN 0 ELSE started_ - 1

\* six contents in chunks of three: one delay, none after the second chunk
C31_SixItemsOneDelay ==
    /\ batchAI.pc = "returned"
    /\ batchAI.n = 6
    /\ batchAI.options = EmptyJson
    /\ Len(batchAI.chunks) = 2
    /\ batchAI.delays = 1


Increasing(entries) ==
    \A x, y \in 1..Len(entries) : x < y => entries[x].index < entries[y].index

\* C32: in a POST whose list of n URLs is accepted, every URL the loop has
\* dealt with has exactly one entry, in processed or in errors and not in
\* both, so the response has |processed| + |errors| = n, and each of the two
\* lists keeps the order of the URLs.
C32_OneEntryPerUrl ==
    (batch /= NotCalled /\ batch.pc \in {"loop", "processing", "done"} /\ batch.status /= 400)
        => /\ Len(batch.processed) + Len(batch.errors) =
                  IF batch.pc = "done" THEN Len(batch.body.items) ELSE batch.k - 1
           /\ {batch.processed[x].index : x \in 1..Len(batch.processed)}
                  \cap {batch.errors[x].index : x \in 1..Len(batch.errors)} = {}
           /\ {batch.processed[x].index : x \in 1..Len(batch.processed)}
                  \cup {batch.errors[x].index : x \in 1..Len(batch.errors)}
                  = 1..(Len(batch.processed) + Len(batch.errors))
           /\ Increasing(batch.processed)
           /\ Increasing(batch.errors)

\* two URLs, both processed, in the order they were given
C32_TwoProcessedInOrder ==
    /\ batch /= NotCalled
    /\ batch.pc = "done" /\ batch.status = 200
    /\ Len(batch.body.items) = 2
    /\ Len(batch.processed) = 2 /\ batch.errors = <<>>
    /\ batch.processed[1].index = 1 /\ batch.processed[2].index = 2
    /\ batch.processed[1].listed /= <<>> /\ batch.processed[2].listed = <<>>


\* C33: whenever no request is being served, the processing_status of every
\* item agrees with its current_step: completed with completed, failed with
\* failed, and pending or processing with every other step.
C33_StatusAgreesWithStep ==
    (\A s \in Slots : req[s].pc \in {"idle", "done"})
        => \A i \in 1..Len(content_items) :
               LET item == content_items[i]
               IN CASE item.current_step = "completed" -> item.processing_status = "completed"
                    [] item.current_step = "failed" -> item.processing_status = "failed"
                    [] OTHER -> item.processing_status \in {"pending", "processing"}


\* C34: getOptimalModelConfig gives the cheaper configuration for every length
\* below 1000, the balanced one for every length from 1000 to 5000 inclusive,
\* and the most capable one (more tokens, lower temperature) only above 5000.
C34_TierOfLength ==
    (ai.pc = "settled" /\ ai.in.fn = "estimateCost")
        => LET length == ai.in.contentLength
               config == ai.out.config
           IN /\ length < 1000 =>
                     config.model = "claude-3-haiku" /\ config.maxTokens = 1500
              /\ (1000 <= length /\ length <= 5000) =>
                     /\ config.model = "claude-3-sonnet"
                     /\ config.maxTokens = 3000 /\ config.temperature = 3
              /\ length > 5000 =>
                     /\ config.model = "claude-3-sonnet"
                     /\ config.maxTokens = 4000 /\ config.temperature = 2


\* C35: whatever the response of the provider holds, parsable or not, the
\* confidence of the result generateSummary returns, and the one stored with
\* the summary, lies in [0,1] (0..100 hundredths).
C35_ConfidenceInUnitInterval ==
    /\ (ai.pc = "settled" /\ ai.in.fn = "claudeGenerateSummary" /\ ai.out.ok)
           => (0 <= ai.out.result.confidence /\ ai.out.result.confidence <= 100)
    /\ ai.pc = "stored"
           => /\ 0 <= ai.surfaced.generation_metadata.confidence
              /\ ai.surfaced.generation_metadata.confidence <= 100

\* C36: every kind of the taxonomy of ClaudeAPIError is the errorType the catch
\* block gives to at least one failure of the API call.
C36_EveryKindClassified ==
    (ai.pc = "settled" /\ ~ai.out.ok)
        => \A kind \in ClaudeErrorTypes :
               \E e \in RawFailures \cup {UnexpectedFormat} :
                   \E fn \in {"Failed to generate summary:", "Failed to extract topics:"} :
                       ClaudeCatch(e, fn).errorType = kind


====
